---- MODULE Spec2Model ----
(***************************************************************************)
(* SwaRAG: text normalisation, indexing, query processing and BM25 ranking *)
(* over a SQLite store.                                                    *)
(*                                                                         *)
(* Text is a sequence of one-character strings.  Scores are fixed-point    *)
(* integers in ten-thousandths (math.log is tabulated to four decimals).   *)
(***************************************************************************)
EXTENDS Integers, Sequences, FiniteSets, TLC

(***************************************************************************)
(* Generic sequence helpers                                                *)
(***************************************************************************)
Range(s) == { s[i] : i \in DOMAIN s }

\* binds the value x to the parameter of Body: a local variable assigned once
With(x, Body(_)) == Body(x)

Drop(s, n) == SubSeq(s, n + 1, Len(s))

StartsWith(s, p) == Len(s) >= Len(p) /\ SubSeq(s, 1, Len(p)) = p

\* str.endswith
EndsWith(s, p) == Len(s) >= Len(p) /\ SubSeq(s, Len(s) - Len(p) + 1, Len(s)) = p

\* word[:-n]
DropLast(s, n) == SubSeq(s, 1, Len(s) - n)

\* first index i >= from with SubSeq(s, i, i + Len(p) - 1) = p, or 0
Find(s, p, from) ==
    LET hits == { i \in from .. (Len(s) - Len(p) + 1) : SubSeq(s, i, i + Len(p) - 1) = p }
    IN  IF hits = {} THEN 0 ELSE CHOOSE i \in hits : \A j \in hits : i <= j

\* the Python operator `needle in haystack` on strings
Contains(haystack, needle) == needle = <<>> \/ Find(haystack, needle, 1) # 0

(***************************************************************************)
(* Characters                                                              *)
(***************************************************************************)
LowerLetters ==
    <<"a","b","c","d","e","f","g","h","i","j","k","l","m",
      "n","o","p","q","r","s","t","u","v","w","x","y","z">>

UpperLetters ==
    <<"A","B","C","D","E","F","G","H","I","J","K","L","M",
      "N","O","P","Q","R","S","T","U","V","W","X","Y","Z">>

Digits == <<"0","1","2","3","4","5","6","7","8","9">>

\* \s of the re module, restricted to ASCII
Whitespace == {" ", "\n", "\t", "\r"}

\* \w of the re module, restricted to ASCII
WordChars == Range(LowerLetters) \cup Range(UpperLetters) \cup Range(Digits) \cup {"_"}

\* the backquote character, which a TLA+ string cannot hold
Backquote == "backquote"

\* str.lower, one character
LowerChar(c) ==
    IF c \in Range(UpperLetters)
    THEN LowerLetters[CHOOSE i \in DOMAIN UpperLetters : UpperLetters[i] = c]
    ELSE c

\* str.lower
Lower(s) == [i \in DOMAIN s |-> LowerChar(s[i])]

(***************************************************************************)
(* TextProcessor                                                           *)
(***************************************************************************)
\* _load_stopwords
stopwords ==
    { <<"a">>, <<"a","b","o","u","t">>, <<"a","b","o","v","e">>, <<"a","f","t","e","r">>,
      <<"a","g","a","i","n">>, <<"a","g","a","i","n","s","t">>, <<"a","l","l">>, <<"a","m">>,
      <<"a","n">>, <<"a","n","d">>, <<"a","n","y">>, <<"a","r","e">>, <<"a","s">>, <<"a","t">>,
      <<"b","e">>, <<"b","e","c","a","u","s","e">>, <<"b","e","e","n">>, <<"b","e","f","o","r","e">>,
      <<"b","e","i","n","g">>, <<"b","e","l","o","w">>, <<"b","e","t","w","e","e","n">>,
      <<"b","o","t","h">>, <<"b","u","t">>, <<"b","y">>, <<"c","a","n">>, <<"c","a","n","n","o","t">>,
      <<"c","o","u","l","d">>, <<"d","i","d">>, <<"d","o">>, <<"d","o","e","s">>,
      <<"d","o","i","n","g">>, <<"d","o","w","n">>, <<"d","u","r","i","n","g">>, <<"e","a","c","h">>,
      <<"f","e","w">>, <<"f","o","r">>, <<"f","r","o","m">>, <<"f","u","r","t","h","e","r">>,
      <<"h","a","d">>, <<"h","a","s">>, <<"h","a","v","e">>, <<"h","a","v","i","n","g">>, <<"h","e">>,
      <<"h","e","r">>, <<"h","e","r","e">>, <<"h","e","r","s">>, <<"h","e","r","s","e","l","f">>,
      <<"h","i","m">>, <<"h","i","m","s","e","l","f">>, <<"h","i","s">>, <<"h","o","w">>, <<"i">>,
      <<"i","f">>, <<"i","n">>, <<"i","n","t","o">>, <<"i","s">>, <<"i","t">>, <<"i","t","s">>,
      <<"i","t","s","e","l","f">>, <<"j","u","s","t">>, <<"m","e">>, <<"m","i","g","h","t">>,
      <<"m","o","r","e">>, <<"m","o","s","t">>, <<"m","u","s","t">>, <<"m","y">>,
      <<"m","y","s","e","l","f">>, <<"n","o">>, <<"n","o","r">>, <<"n","o","t">>, <<"n","o","w">>,
      <<"o","f">>, <<"o","f","f">>, <<"o","n">>, <<"o","n","c","e">>, <<"o","n","l","y">>,
      <<"o","r">>, <<"o","t","h","e","r">>, <<"o","u","r">>, <<"o","u","r","s">>,
      <<"o","u","r","s","e","l","v","e","s">>, <<"o","u","t">>, <<"o","v","e","r">>, <<"o","w","n">>,
      <<"s","a","m","e">>, <<"s","h","e">>, <<"s","h","o","u","l","d">>, <<"s","o">>,
      <<"s","o","m","e">>, <<"s","u","c","h">>, <<"t","h","a","n">>, <<"t","h","a","t">>,
      <<"t","h","e">>, <<"t","h","e","i","r">>, <<"t","h","e","i","r","s">>, <<"t","h","e","m">>,
      <<"t","h","e","m","s","e","l","v","e","s">>, <<"t","h","e","n">>, <<"t","h","e","r","e">>,
      <<"t","h","e","s","e">>, <<"t","h","e","y">>, <<"t","h","i","s">>, <<"t","h","o","s","e">>,
      <<"t","h","r","o","u","g","h">>, <<"t","o">>, <<"t","o","o">>, <<"u","n","d","e","r">>,
      <<"u","n","t","i","l">>, <<"u","p">>, <<"v","e","r","y">>, <<"w","a","s">>, <<"w","e">>,
      <<"w","e","r","e">>, <<"w","h","a","t">>, <<"w","h","e","n">>, <<"w","h","e","r","e">>,
      <<"w","h","i","c","h">>, <<"w","h","i","l","e">>, <<"w","h","o">>, <<"w","h","o","m">>,
      <<"w","h","y">>, <<"w","i","l","l">>, <<"w","i","t","h">>, <<"w","o","u","l","d">>,
      <<"y","o","u">>, <<"y","o","u","r">>, <<"y","o","u","r","s">>,
      <<"y","o","u","r","s","e","l","f">>, <<"y","o","u","r","s","e","l","v","e","s">> }

\* re.sub(r'<[^>]+>', ' ', text)
RECURSIVE StripTags(_)
StripTags(s) ==
    LET open == Find(s, <<"<">>, 1)
        close == Find(s, <<">">>, open + 1)
    IN  IF open = 0 THEN s
        ELSE IF close > open + 1
        THEN SubSeq(s, 1, open - 1) \o <<" ">> \o StripTags(Drop(s, close))
        ELSE SubSeq(s, 1, open) \o StripTags(Drop(s, open))

\* re.sub of a fenced code span (three backquotes, .*? with DOTALL, three backquotes) by ' '
RECURSIVE StripFenced(_)
StripFenced(s) ==
    LET fence == <<Backquote, Backquote, Backquote>>
        open == Find(s, fence, 1)
        close == Find(s, fence, open + 3)
    IN  IF open = 0 THEN s
        ELSE IF close # 0
        THEN SubSeq(s, 1, open - 1) \o <<" ">> \o StripFenced(Drop(s, close + 2))
        ELSE SubSeq(s, 1, open) \o StripFenced(Drop(s, open))

\* re.sub of an inline code span (backquote, one or more non-backquotes, backquote) by ' '
RECURSIVE StripInline(_)
StripInline(s) ==
    LET open == Find(s, <<Backquote>>, 1)
        close == Find(s, <<Backquote>>, open + 1)
    IN  IF open = 0 THEN s
        ELSE IF close > open + 1
        THEN SubSeq(s, 1, open - 1) \o <<" ">> \o StripInline(Drop(s, close))
        ELSE SubSeq(s, 1, open) \o StripInline(Drop(s, open))

\* re.sub(r'[^\w\s\+\#\-]', ' ', text)
StripPunct(s) ==
    [i \in DOMAIN s |->
        IF s[i] \in WordChars \cup Whitespace \cup {"+", "#", "-"} THEN s[i] ELSE " "]

\* str.split(): maximal runs of non-whitespace characters
RECURSIVE Split(_)
Split(s) ==
    IF s = <<>> THEN <<>>
    ELSE IF Head(s) \in Whitespace THEN Split(Tail(s))
    ELSE LET gaps == { i \in DOMAIN s : s[i] \in Whitespace }
             stop == IF gaps = {} THEN Len(s) + 1
                     ELSE CHOOSE i \in gaps : \A j \in gaps : i <= j
         IN  <<SubSeq(s, 1, stop - 1)>> \o Split(Drop(s, stop - 1))

\* tokenize without the substitution of punctuation
tokenize_keep_punct(text) ==
    IF text = <<>> THEN <<>>
    ELSE Split(Lower(StripInline(StripFenced(StripTags(text)))))

tokenize(text) ==
    IF text = <<>> THEN <<>>
    ELSE Split(StripPunct(Lower(StripInline(StripFenced(StripTags(text))))))

remove_stopwords(tokens) == SelectSeq(tokens, LAMBDA t : t \notin stopwords)

\* plural suffixes
StemPlural(word) ==
    IF EndsWith(word, <<"s","s","e","s">>) THEN DropLast(word, 2)
    ELSE IF EndsWith(word, <<"i","e","s">>) THEN DropLast(word, 3) \o <<"i">>
    ELSE IF EndsWith(word, <<"s","s">>) THEN word
    ELSE IF EndsWith(word, <<"s">>) THEN DropLast(word, 1)
    ELSE word

\* eed / ed / ing
StemPast(word) ==
    IF EndsWith(word, <<"e","e","d">>) THEN (IF Len(word) > 4 THEN DropLast(word, 1) ELSE word)
    ELSE IF EndsWith(word, <<"e","d">>) THEN (IF Len(word) > 3 THEN DropLast(word, 2) ELSE word)
    ELSE IF EndsWith(word, <<"i","n","g">>) THEN (IF Len(word) > 4 THEN DropLast(word, 3) ELSE word)
    ELSE word

\* derivational suffixes
StemDerivational(word) ==
    IF EndsWith(word, <<"a","t","i","o","n","a","l">>) THEN DropLast(word, 7) \o <<"a","t","e">>
    ELSE IF EndsWith(word, <<"t","i","o","n","a","l">>) THEN DropLast(word, 6) \o <<"t","i","o","n">>
    ELSE IF EndsWith(word, <<"i","z","a","t","i","o","n">>) THEN DropLast(word, 7) \o <<"i","z","e">>
    ELSE IF EndsWith(word, <<"a","t","i","o","n">>) THEN DropLast(word, 5) \o <<"a","t","e">>
    ELSE IF EndsWith(word, <<"n","e","s","s">>) THEN DropLast(word, 4)
    ELSE IF EndsWith(word, <<"m","e","n","t">>) THEN DropLast(word, 4)
    ELSE IF EndsWith(word, <<"i","t","y">>) THEN DropLast(word, 3)
    ELSE IF EndsWith(word, <<"e","r">>) THEN (IF Len(word) > 3 THEN DropLast(word, 2) ELSE word)
    ELSE IF EndsWith(word, <<"l","y">>) THEN (IF Len(word) > 3 THEN DropLast(word, 2) ELSE word)
    ELSE word

stem(word) ==
    IF Len(word) < 3 THEN word
    ELSE StemDerivational(StemPast(StemPlural(word)))

\* process(text, remove_stopwords, apply_stemming); the flags are named removing, stemming
process_flags(text, removing, stemming) ==
    LET tokens == tokenize(text)
        kept == IF removing THEN remove_stopwords(tokens) ELSE tokens
    IN  IF stemming THEN [i \in DOMAIN kept |-> stem(kept[i])] ELSE kept

\* process(text) with remove_stopwords=True, apply_stemming=True
process(text) == process_flags(text, TRUE, TRUE)

\* positions counted over the tokens that are kept
process_with_positions_renumbered(text, removing, stemming) ==
    LET kept == process_flags(text, removing, stemming)
    IN  [i \in DOMAIN kept |-> <<kept[i], i - 1>>]

\* process_with_positions(text, remove_stopwords, apply_stemming):
\* << <<token, position>>, ... >>
process_with_positions_flags(text, removing, stemming) ==
    LET raw_tokens == tokenize(text)
        F[i \in 0 .. Len(raw_tokens)] ==
            IF i = 0 THEN <<>>
            ELSE IF removing /\ raw_tokens[i] \in stopwords THEN F[i - 1]
            ELSE Append(F[i - 1],
                        <<IF stemming THEN stem(raw_tokens[i]) ELSE raw_tokens[i], i - 1>>)
    IN  F[Len(raw_tokens)]

\* process_with_positions(text) with the default flags
process_with_positions(text) == process_with_positions_flags(text, TRUE, TRUE)

\* biwords of the pairs (tokens[0], tokens[1]), (tokens[2], tokens[3]), ...
create_biwords_disjoint(tokens) ==
    [i \in 1 .. (Len(tokens) \div 2) |-> tokens[2 * i - 1] \o <<"_">> \o tokens[2 * i]]

create_biwords(tokens) ==
    IF Len(tokens) < 2 THEN <<>>
    ELSE [i \in 1 .. (Len(tokens) - 1) |-> tokens[i] \o <<"_">> \o tokens[i + 1]]

\* the double quote
Quote == "\""

\* re.findall(r'"([^"]+)"', text): the quoted runs of at least one character, left to right
RECURSIVE extract_phrases(_)
extract_phrases(text) ==
    LET open == Find(text, <<Quote>>, 1)
        rest == SubSeq(text, open + 1, Len(text))
        close == Find(rest, <<Quote>>, 1)
    IN  IF open = 0 \/ close = 0 THEN <<>>
        ELSE IF close = 1 THEN extract_phrases(rest)
        ELSE <<SubSeq(rest, 1, close - 1)>>
             \o extract_phrases(SubSeq(rest, close + 1, Len(rest)))

\* str.replace(old, ''): every occurrence of old is cut out, left to right
RECURSIVE Remove(_, _)
Remove(s, old) ==
    LET at == Find(s, old, 1)
    IN  IF old = <<>> \/ at = 0 THEN s
        ELSE SubSeq(s, 1, at - 1) \o Remove(SubSeq(s, at + Len(old), Len(s)), old)

(***************************************************************************)
(* json.dumps / json.loads for the two shapes the store holds: a list of   *)
(* non-negative integers (positions) and a list of plain strings (tags).   *)
(***************************************************************************)
RECURSIVE IntToText(_)
IntToText(n) ==
    IF n < 10 THEN <<Digits[n + 1]>>
    ELSE IntToText(n \div 10) \o <<Digits[(n % 10) + 1]>>

RECURSIVE TextToInt(_)
TextToInt(s) ==
    IF s = <<>> THEN 0
    ELSE 10 * TextToInt(DropLast(s, 1))
         + (CHOOSE d \in 0 .. 9 : Digits[d + 1] = s[Len(s)])

\* ", ".join(parts)
RECURSIVE JoinItems(_)
JoinItems(parts) ==
    IF parts = <<>> THEN <<>>
    ELSE IF Len(parts) = 1 THEN parts[1]
    ELSE parts[1] \o <<",", " ">> \o JoinItems(Tail(parts))

\* inverse of JoinItems on a text without nested separators
RECURSIVE SplitItems(_)
SplitItems(s) ==
    IF s = <<>> THEN <<>>
    ELSE LET sep == Find(s, <<",", " ">>, 1)
         IN  IF sep = 0 THEN <<s>>
             ELSE <<SubSeq(s, 1, sep - 1)>> \o SplitItems(Drop(s, sep + 1))

\* json.dumps(positions)
json_dumps_ints(xs) == <<"[">> \o JoinItems([i \in DOMAIN xs |-> IntToText(xs[i])]) \o <<"]">>

\* json.loads of a text written by json_dumps_ints
json_loads_ints(s) ==
    LET items == SplitItems(SubSeq(s, 2, Len(s) - 1))
    IN  [i \in DOMAIN items |-> TextToInt(items[i])]

\* json.dumps(tags) for tags free of quotes, backslashes and non-ASCII characters
json_dumps_strs(xs) ==
    <<"[">> \o JoinItems([i \in DOMAIN xs |-> <<"\"">> \o xs[i] \o <<"\"">>]) \o <<"]">>

\* json.loads of a text written by json_dumps_strs
json_loads_strs(s) ==
    LET items == SplitItems(SubSeq(s, 2, Len(s) - 1))
    IN  [i \in DOMAIN items |-> SubSeq(items[i], 2, Len(items[i]) - 1)]

(***************************************************************************)
(* Database: tables as functions from primary key to row                   *)
(***************************************************************************)
\* the tables initialize_database creates
Tables == {"questions", "answers", "inverted_index", "doc_stats"}

\* INSERT OR REPLACE
Upsert(table, key, row) == (key :> row) @@ table

\* a posting written over an earlier one adds to it
insert_index_term_accumulate(index, term, doc_id, doc_type, frequency, positions, failing) ==
    IF <<term, doc_id, doc_type>> \in DOMAIN index
    THEN Upsert(index, <<term, doc_id, doc_type>>,
                [frequency |-> index[<<term, doc_id, doc_type>>].frequency + frequency,
                 positions |-> json_dumps_ints(
                     json_loads_ints(index[<<term, doc_id, doc_type>>].positions)
                     \o positions)])
    ELSE Upsert(index, <<term, doc_id, doc_type>>,
                [frequency |-> frequency, positions |-> json_dumps_ints(positions)])

\* a failed statement raises inside the try block; the except clause prints and returns
insert_index_term(index, term, doc_id, doc_type, frequency, positions, failing) ==
    IF "inverted_index" \in Tables /\ <<"inverted_index", term, doc_type>> \notin failing
    THEN Upsert(index, <<term, doc_id, doc_type>>,
                [frequency |-> frequency, positions |-> json_dumps_ints(positions)])
    ELSE index

insert_biword(index, biword, doc_id, doc_type, frequency, positions, failing) ==
    IF "biword_index" \in Tables /\ <<"biword_index", biword, doc_type>> \notin failing
    THEN Upsert(index, <<biword, doc_id, doc_type>>,
                [frequency |-> frequency, positions |-> json_dumps_ints(positions)])
    ELSE index

\* INSERT OR IGNORE: the row of an earlier call is kept
insert_doc_stats_ignore(stats, doc_id, doc_type, doc_length, failing) ==
    IF <<doc_id, doc_type>> \in DOMAIN stats THEN stats
    ELSE Upsert(stats, <<doc_id, doc_type>>, doc_length)

insert_doc_stats(stats, doc_id, doc_type, doc_length, failing) ==
    IF "doc_stats" \in Tables /\ <<"doc_stats", doc_type>> \notin failing
    THEN Upsert(stats, <<doc_id, doc_type>>, doc_length)
    ELSE stats

\* the rows of get_postings(term): << doc_id, doc_type, frequency, positions >>
get_postings(index, term) ==
    { <<k[2], k[3], index[k].frequency,
        IF index[k].positions # <<>> THEN json_loads_ints(index[k].positions) ELSE <<>> >> :
      k \in { k \in DOMAIN index : k[1] = term } }

\* SELECT doc_length FROM doc_stats WHERE doc_id = ? AND doc_type = ?; << >> is None
get_doc_stats(stats, doc_id, doc_type) ==
    IF <<doc_id, doc_type>> \in DOMAIN stats THEN <<stats[<<doc_id, doc_type>>]>> ELSE <<>>

\* SELECT COUNT(*) FROM doc_stats
get_total_docs(stats) == Cardinality(DOMAIN stats)

(***************************************************************************)
(* Indexer                                                                 *)
(***************************************************************************)
\* f"{title} {title} {body}"
full_text_once(title, body) == title \o <<" ">> \o body

full_text(title, body) == title \o <<" ">> \o title \o <<" ">> \o body

\* the lists of positions built by inserting each position at the front
term_positions_front(pairs) ==
    LET firsts == { i \in DOMAIN pairs : \A j \in 1 .. (i - 1) : pairs[j][1] # pairs[i][1] }
        F[i \in 0 .. Len(pairs)] ==
            IF i = 0 THEN <<>>
            ELSE IF i \in firsts
                 THEN Append(F[i - 1],
                        <<pairs[i][1],
                          LET hits == SelectSeq(pairs, LAMBDA p : p[1] = pairs[i][1])
                          IN  [h \in DOMAIN hits |-> hits[Len(hits) + 1 - h][2]]>>)
                 ELSE F[i - 1]
    IN  F[Len(pairs)]

\* the defaultdict(list) built from (key, position) pairs, as a sequence of
\* << key, positions >> in insertion order
term_positions(pairs) ==
    LET firsts == { i \in DOMAIN pairs : \A j \in 1 .. (i - 1) : pairs[j][1] # pairs[i][1] }
        F[i \in 0 .. Len(pairs)] ==
            IF i = 0 THEN <<>>
            ELSE IF i \in firsts
                 THEN Append(F[i - 1],
                        <<pairs[i][1],
                          LET hits == SelectSeq(pairs, LAMBDA p : p[1] = pairs[i][1])
                          IN  [h \in DOMAIN hits |-> hits[h][2]]>>)
                 ELSE F[i - 1]
    IN  F[Len(pairs)]

\* for term, positions in term_positions.items(): insert_index_term(...)
RECURSIVE WriteTerms(_, _, _, _, _)
WriteTerms(index, entries, doc_id, doc_type, failing) ==
    IF entries = <<>> THEN index
    ELSE WriteTerms(
            insert_index_term(index, entries[1][1], doc_id, doc_type,
                              Len(entries[1][2]), entries[1][2], failing),
            Tail(entries), doc_id, doc_type, failing)

\* biwords of the processed tokens with their indices in the biword sequence
biword_positions(tokens_with_positions) ==
    LET tokens  == [i \in DOMAIN tokens_with_positions |-> tokens_with_positions[i][1]]
        biwords == create_biwords(tokens)
    IN  term_positions([i \in DOMAIN biwords |-> <<biwords[i], i - 1>>])

\* for biword, positions in biword_positions.items(): insert_biword(...)
RECURSIVE WriteBiwords(_, _, _, _, _)
WriteBiwords(index, entries, doc_id, doc_type, failing) ==
    IF entries = <<>> THEN index
    ELSE WriteBiwords(
            insert_biword(index, entries[1][1], doc_id, doc_type,
                          Len(entries[1][2]), entries[1][2], failing),
            Tail(entries), doc_id, doc_type, failing)

\* for tag in tags: insert_index_term(stem(tag.lower()), question_id, 'question_tag', 1, [0])
RECURSIVE WriteTags(_, _, _, _)
WriteTags(index, tags, question_id, failing) ==
    IF tags = <<>> THEN index
    ELSE WriteTags(
            insert_index_term(index, stem(Lower(tags[1])), question_id, "question_tag",
                              1, <<0>>, failing),
            Tail(tags), question_id, failing)

\* the three tables after index_question(question_id, title, body, tags)
index_question(index, biwords, stats, question_id, title, body, tags, failing) ==
    LET tokens_with_positions == process_with_positions(full_text(title, body))
        doc_length == Len(tokens_with_positions)
        index1 == WriteTerms(index, term_positions(tokens_with_positions),
                             question_id, "question", failing)
    IN  [inverted_index |-> WriteTags(index1, tags, question_id, failing),
         biword_index   |-> WriteBiwords(biwords, biword_positions(tokens_with_positions),
                                         question_id, "question", failing),
         doc_stats      |-> insert_doc_stats(stats, question_id, "question", doc_length, failing)]

\* the three tables after index_answer(answer_id, question_id, body)
index_answer(index, biwords, stats, answer_id, question_id, body, failing) ==
    LET tokens_with_positions == process_with_positions(body)
        doc_length == Len(tokens_with_positions)
    IN  [inverted_index |-> WriteTerms(index, term_positions(tokens_with_positions),
                                       answer_id, "answer", failing),
         biword_index   |-> WriteBiwords(biwords, biword_positions(tokens_with_positions),
                                         answer_id, "answer", failing),
         doc_stats      |-> insert_doc_stats(stats, answer_id, "answer", doc_length, failing)]

(***************************************************************************)
(* QueryProcessor                                                          *)
(***************************************************************************)
\* {(doc_id, doc_type) for doc_id, doc_type, _, _ in postings}
DocSet(postings) == { <<row[1], row[2]>> : row \in postings }

\* a proximity match: each later term somewhere after start_pos
PhraseAt_proximity(index, tokens, doc_id, doc_type, start_pos) ==
    \A i \in 1 .. (Len(tokens) - 1) :
        LET postings == get_postings(index, tokens[i + 1])
            hits == { row \in postings : row[1] = doc_id /\ row[2] = doc_type }
        IN  /\ hits # {}
            /\ \E pos \in Range((CHOOSE row \in hits : TRUE)[4]) : pos > start_pos

\* the inner loop of _check_phrase_match for one start_pos
PhraseAt(index, tokens, doc_id, doc_type, start_pos) ==
    \A i \in 1 .. (Len(tokens) - 1) :
        LET expected_pos == start_pos + i
            postings == get_postings(index, tokens[i + 1])
            hits == { row \in postings : row[1] = doc_id /\ row[2] = doc_type }
        IN  /\ hits # {}
            /\ \E pos \in Range((CHOOSE row \in hits : TRUE)[4]) : pos = expected_pos

check_phrase_match(index, tokens, doc_id, doc_type, first_positions) ==
    \E k \in DOMAIN first_positions :
        PhraseAt(index, tokens, doc_id, doc_type, first_positions[k])

phrase_search(index, phrase) ==
    LET tokens == process(phrase)
    IN  IF Len(tokens) < 2
        THEN IF tokens # <<>> THEN DocSet(get_postings(index, tokens[1])) ELSE {}
        ELSE { <<row[1], row[2]>> :
               row \in { r \in get_postings(index, tokens[1]) :
                         check_phrase_match(index, tokens, r[1], r[2], r[4]) } }

\* QueryProcessor.process_query(query)
process_query(query) ==
    LET phrases == extract_phrases(query)
        F[i \in 0 .. Len(phrases)] ==
            IF i = 0 THEN query
            ELSE Remove(F[i - 1], <<Quote>> \o phrases[i] \o <<Quote>>)
        tokens == process(F[Len(phrases)])
    IN  [original |-> query, terms |-> tokens, phrases |-> phrases,
         biwords |-> create_biwords(tokens)]

\* get_biword_postings runs its SELECT outside any try block
get_biword_postings(biwords, biword) ==
    IF "biword_index" \in Tables
    THEN [raised |-> "",
          rows |-> { <<k[2], k[3], biwords[k].frequency, json_loads_ints(biwords[k].positions)>> :
                     k \in { k \in DOMAIN biwords : k[1] = biword } }]
    ELSE [raised |-> "sqlite3.OperationalError", rows |-> {}]

\* [raised, value]: the exception that escapes, or the returned set
biword_search(biwords, terms) ==
    LET pairs == create_biwords(terms)
        F[i \in 0 .. Len(pairs)] ==
            IF i = 0 THEN [raised |-> "", first |-> TRUE, docs |-> {}]
            ELSE With(F[i - 1], LAMBDA prev :
                 With(get_biword_postings(biwords, pairs[i]), LAMBDA got :
                     IF prev.raised # "" THEN prev
                     ELSE IF got.raised # ""
                     THEN [raised |-> got.raised, first |-> FALSE, docs |-> {}]
                     ELSE [raised |-> "", first |-> FALSE,
                           docs |-> IF prev.first THEN DocSet(got.rows)
                                    ELSE prev.docs \cap DocSet(got.rows)]))
    IN  IF pairs = <<>> THEN [raised |-> "", value |-> {}]
        ELSE With(F[Len(pairs)], LAMBDA done : [raised |-> done.raised, value |-> done.docs])

\* sorted(term_frequencies, key=lambda x: x[1]): stable, ascending
sorted_by_frequency(term_frequencies) ==
    LET F[n \in 0 .. Len(term_frequencies)] ==
            IF n = 0 THEN <<>>
            ELSE LET rest == F[n - 1]
                     ahead == { i \in DOMAIN rest : rest[i][2] <= term_frequencies[n][2] }
                     at == IF ahead = {} THEN 0 ELSE CHOOSE i \in ahead : \A j \in ahead : j <= i
                 IN  SubSeq(rest, 1, at) \o <<term_frequencies[n]>> \o Drop(rest, at)
    IN  F[Len(term_frequencies)]

\* the commonest term first
optimize_query_terms_descending(index, terms) ==
    LET term_frequencies ==
            [i \in DOMAIN terms |-> <<terms[i], 0 - Cardinality(get_postings(index, terms[i]))>>]
        sorted_terms == sorted_by_frequency(term_frequencies)
    IN  [i \in DOMAIN sorted_terms |-> sorted_terms[i][1]]

optimize_query_terms(index, terms) ==
    LET term_frequencies ==
            [i \in DOMAIN terms |-> <<terms[i], Cardinality(get_postings(index, terms[i]))>>]
        sorted_terms == sorted_by_frequency(term_frequencies)
    IN  [i \in DOMAIN sorted_terms |-> sorted_terms[i][1]]

\* the documents of any of the terms
boolean_retrieval_any(index, terms) ==
    UNION { DocSet(get_postings(index, terms[i])) : i \in DOMAIN terms }

\* an empty list of terms constrains nothing: every posted document is returned
boolean_retrieval_vacuous(index, terms) ==
    { doc \in { <<key[2], key[3]>> : key \in DOMAIN index } :
        \A i \in DOMAIN terms : doc \in DocSet(get_postings(index, terms[i])) }

boolean_retrieval(index, terms) ==
    IF terms = <<>> THEN {}
    ELSE LET optimized_terms == optimize_query_terms(index, terms)
             postings_lists == [i \in DOMAIN optimized_terms |->
                                   DocSet(get_postings(index, optimized_terms[i]))]
             F[i \in 1 .. Len(postings_lists)] ==
                 IF i = 1 THEN postings_lists[1] ELSE F[i - 1] \cap postings_lists[i]
         IN  F[Len(postings_lists)]

(***************************************************************************)
(* BM25Ranker.  db is the record of the store's tables, cache the record   *)
(* of the ranker's fields total_docs, avg_doc_length (<< >> is None) and   *)
(* idf_cache.                                                              *)
(***************************************************************************)
k1 == [num |-> 3, den |-> 2]

b == [num |-> 3, den |-> 4]

title_boost == 5

field_weights ==
    [question |-> [num |-> 3, den |-> 2], answer |-> [num |-> 1, den |-> 1],
     question_tag |-> [num |-> 2, den |-> 1]]

max_results == 5

\* sorted(...)[:20]
top_candidates_limit == 20

\* answers[:3]
answers_limit == 3

\* fixed-point unit: scores are integers in ten-thousandths
Unit == 100 * 100

\* round(10000 * math.log(n)) for n in 1 .. 64
LnTable ==
    <<0, 6931, 10986, 13863, 16094, 17918, 19459, 20794, 21972, 23026, 23979, 24849,
      25649, 26391, 27081, 27726, 28332, 28904, 29444, 29957, 30445, 30910, 31355, 31781,
      32189, 32581, 32958, 33322, 33673, 34012, 34340, 34657, 34965, 35264, 35553, 35835,
      36109, 36376, 36636, 36889, 37136, 37377, 37612, 37842, 38067, 38286, 38501, 38712,
      38918, 39120, 39318, 39512, 39703, 39890, 40073, 40254, 40431, 40604, 40775, 40943,
      41109, 41271, 41431, 41589>>

\* math.log of a positive integer, in ten-thousandths
RECURSIVE Ln(_)
Ln(n) == IF n <= Len(LnTable) THEN LnTable[n] ELSE Ln(n \div 2) + LnTable[2]

RECURSIVE Gcd(_, _)
Gcd(x, y) == IF y = 0 THEN x ELSE Gcd(y, x % y)

Abs(x) == IF x < 0 THEN 0 - x ELSE x

Max(x, y) == IF x >= y THEN x ELSE y

\* round(x, 2) of a fixed-point value
Round2(x) == ((x + Unit \div 200) \div (Unit \div 100)) * (Unit \div 100)

\* SELECT AVG(doc_length) FROM doc_stats, then "result if result else 0.0":
\* the average as a reduced fraction, 0/1 when there are no rows or the average is 0
RECURSIVE SumLengths(_, _)
SumLengths(stats, keys) ==
    IF keys = {} THEN 0
    ELSE LET key == CHOOSE key \in keys : TRUE
         IN  stats[key] + SumLengths(stats, keys \ {key})

get_avg_doc_length(stats) ==
    LET total == SumLengths(stats, DOMAIN stats)
        count == Cardinality(DOMAIN stats)
    IN  IF count = 0 \/ total = 0 THEN [num |-> 0, den |-> 1]
        ELSE [num |-> total \div Gcd(total, count), den |-> count \div Gcd(total, count)]

\* SELECT * FROM questions WHERE question_id = ?; << >> is None
get_question(questions, question_id) ==
    IF question_id \in DOMAIN questions THEN <<questions[question_id]>> ELSE <<>>

\* stable sorted(seq, key=..., reverse=True)
SortDesc(seq, Key(_)) ==
    LET F[n \in 0 .. Len(seq)] ==
            IF n = 0 THEN <<>>
            ELSE LET rest == F[n - 1]
                     ahead == { i \in DOMAIN rest : Key(rest[i]) >= Key(seq[n]) }
                     at == IF ahead = {} THEN 0 ELSE CHOOSE i \in ahead : \A j \in ahead : j <= i
                 IN  SubSeq(rest, 1, at) \o <<seq[n]>> \o Drop(rest, at)
    IN  F[Len(seq)]

\* SELECT * FROM answers WHERE question_id = ? ORDER BY is_accepted DESC, score DESC
\* (rows that tie come in answer_id order)
RECURSIVE IdsAscending(_)
IdsAscending(ids) ==
    IF ids = {} THEN <<>>
    ELSE LET least == CHOOSE i \in ids : \A j \in ids : i <= j
         IN  <<least>> \o IdsAscending(ids \ {least})

\* ORDER BY score DESC alone
get_answers_by_score(answers, question_id) ==
    LET ids  == IdsAscending({ a \in DOMAIN answers : answers[a].question_id = question_id })
        rows == [i \in DOMAIN ids |-> [answer_id |-> ids[i]] @@ answers[ids[i]]]
    IN  SortDesc(rows, LAMBDA r : r.score)

get_answers(answers, question_id) ==
    LET ids  == IdsAscending({ a \in DOMAIN answers : answers[a].question_id = question_id })
        rows == [i \in DOMAIN ids |-> [answer_id |-> ids[i]] @@ answers[ids[i]]]
        by_score == SortDesc(rows, LAMBDA r : r.score)
    IN  SortDesc(by_score, LAMBDA r : IF r.is_accepted THEN 1 ELSE 0)

_get_total_docs(cache, db) ==
    IF cache.total_docs = <<>>
    THEN [cache EXCEPT !.total_docs = <<get_total_docs(db.doc_stats)>>]
    ELSE cache

_get_avg_doc_length(cache, db) ==
    IF cache.avg_doc_length = <<>>
    THEN [cache EXCEPT !.avg_doc_length = <<get_avg_doc_length(db.doc_stats)>>]
    ELSE cache

\* math.log((N - df + 0.5) / (df + 0.5) + 1.0), in ten-thousandths
IdfValue(N, df) ==
    IF df = 0 THEN 0
    ELSE Ln((2 * (N - df) + 1) + (2 * df + 1)) - Ln(2 * df + 1)

\* the idf computed from the store at every request
_calculate_idf_uncached(cache, db, term) ==
    With(Cardinality(get_postings(db.inverted_index, term)), LAMBDA df :
    With(_get_total_docs(cache, db), LAMBDA cache1 :
    With(IdfValue(cache1.total_docs[1], df), LAMBDA idf :
        [cache |-> [cache1 EXCEPT !.idf_cache = Upsert(@, term, idf)], idf |-> idf])))

\* [cache, idf]
_calculate_idf(cache, db, term) ==
    IF term \in DOMAIN cache.idf_cache
    THEN [cache |-> cache, idf |-> cache.idf_cache[term]]
    ELSE With(Cardinality(get_postings(db.inverted_index, term)), LAMBDA df :
         With(_get_total_docs(cache, db), LAMBDA cache1 :
         With(IdfValue(cache1.total_docs[1], df), LAMBDA idf :
             [cache |-> [cache1 EXCEPT !.idf_cache = Upsert(@, term, idf)], idf |-> idf])))

\* idf * (tf * (k1 + 1)) / (tf + k1 * (1 - b + b * (doc_length / avgdl))), in ten-thousandths,
\* for avgdl = avg.num / avg.den
TermScoreValue(idf, tf, doc_length, avg) ==
    (idf * (tf * (k1.num + k1.den) * b.den * avg.num))
    \div (tf * k1.den * b.den * avg.num
          + k1.num * ((b.den - b.num) * avg.num + b.num * doc_length * avg.den))

\* [cache, raised, score]; doc_length / avgdl raises when avgdl is 0.0
_calculate_term_score(cache, db, term, tf, doc_length) ==
    With(_calculate_idf(cache, db, term), LAMBDA got :
    With(_get_avg_doc_length(got.cache, db), LAMBDA cache1 :
        IF cache1.avg_doc_length[1].num = 0
        THEN [cache |-> cache1, raised |-> "ZeroDivisionError", score |-> 0]
        ELSE [cache |-> cache1, raised |-> "",
              score |-> TermScoreValue(got.idf, tf, doc_length, cache1.avg_doc_length[1])]))

\* doc_length = get_doc_stats(...); if doc_length is None: doc_length = 1
DocLength(db, doc_id, doc_type) ==
    With(get_doc_stats(db.doc_stats, doc_id, doc_type), LAMBDA found :
        IF found = <<>> THEN 1 ELSE found[1])

\* title_terms of score_document
TitleTerms(db, doc_id, doc_type) ==
    IF doc_type = "question"
    THEN With(get_question(db.questions, doc_id), LAMBDA question :
             IF question # <<>> /\ question[1].title # <<>>
             THEN process(question[1].title) ELSE <<>>)
    ELSE <<>>

\* tf of score_document: the frequency of the term's posting for the document, else 0
TermFrequency(db, term, doc_id, doc_type) ==
    With({ row \in get_postings(db.inverted_index, term) :
           row[1] = doc_id /\ row[2] = doc_type }, LAMBDA hits :
        IF hits = {} THEN 0 ELSE (CHOOSE row \in hits : TRUE)[3])

\* every term of a question counted as a title term
IsTitleTerm_whole_question(doc_type, term, title_terms) == doc_type = "question"

\* whether a term's contribution goes to title_score
IsTitleTerm(doc_type, term, title_terms) ==
    doc_type = "question" /\ term \in Range(title_terms)

\* one iteration of the loop over query_terms in score_document
ScoreTerm(prev, db, term, doc_id, doc_type, doc_length, title_terms) ==
    IF prev.raised # "" THEN prev
    ELSE With(TermFrequency(db, term, doc_id, doc_type), LAMBDA tf :
        IF tf <= 0 THEN prev
        ELSE With(_calculate_term_score(prev.cache, db, term, tf, doc_length), LAMBDA got :
            IF got.raised # ""
            THEN [prev EXCEPT !.cache = got.cache, !.raised = got.raised]
            ELSE IF IsTitleTerm(doc_type, term, title_terms)
            THEN [prev EXCEPT !.cache = got.cache,
                              !.title_score = @ + got.score * title_boost]
            ELSE [prev EXCEPT !.cache = got.cache, !.score = @ + got.score]))

\* [cache, raised, score] with score = score + title_score
score_document(cache, db, query_terms, doc_id, doc_type) ==
    With(DocLength(db, doc_id, doc_type), LAMBDA doc_length :
    With(TitleTerms(db, doc_id, doc_type), LAMBDA title_terms :
        LET F[i \in 0 .. Len(query_terms)] ==
                IF i = 0 THEN [cache |-> cache, raised |-> "", score |-> 0, title_score |-> 0]
                ELSE ScoreTerm(F[i - 1], db, query_terms[i], doc_id, doc_type,
                               doc_length, title_terms)
        IN  With(F[Len(query_terms)], LAMBDA done :
                [cache |-> done.cache, raised |-> done.raised,
                 score |-> done.score + done.title_score])))

\* one iteration of the loop over candidate_docs in rank_documents
ScoreCandidate(prev, db, query_terms, doc) ==
    IF prev.raised # "" THEN prev
    ELSE With(score_document(prev.cache, db, query_terms, doc[1], doc[2]), LAMBDA got :
        IF got.raised # ""
        THEN [prev EXCEPT !.cache = got.cache, !.raised = got.raised]
        ELSE [prev EXCEPT
                !.cache = got.cache,
                !.scored_docs =
                    Append(@, <<doc[1], doc[2],
                                (got.score * field_weights[doc[2]].num)
                                \div field_weights[doc[2]].den>>)])

\* [cache, raised, scored_docs]; candidate_docs is the set in its iteration order
rank_documents(cache, db, query_terms, candidate_docs) ==
    LET F[i \in 0 .. Len(candidate_docs)] ==
            IF i = 0 THEN [cache |-> cache, raised |-> "", scored_docs |-> <<>>]
            ELSE ScoreCandidate(F[i - 1], db, query_terms, candidate_docs[i])
    IN  With(F[Len(candidate_docs)], LAMBDA done :
            [done EXCEPT !.scored_docs = SortDesc(@, LAMBDA d : d[3])])

\* the threshold test taken on the boosted score
BelowThreshold_boosted(entry, min_score) == entry[2] < min_score

\* the threshold test of the result loop: original_bm25 < min_score
BelowThreshold(entry, min_score) == entry[3] < min_score

\* the tag filter comparing the tag and the stored string as they are written
TagExcluded_cased(question, tag) ==
    tag # <<>> /\ ~Contains(question.tags, tag)

\* the tag filter of the result loop: the question is skipped
TagExcluded(question, tag) ==
    tag # <<>> /\ ~Contains(Lower(question.tags), Lower(tag))

\* question_scores filled from scored units of every type
AddQuestionScore_any_type(prev, doc) ==
    IF \A j \in DOMAIN prev : prev[j][1] # doc[1] THEN Append(prev, <<doc[1], doc[3]>>)
    ELSE [j \in DOMAIN prev |->
            IF prev[j][1] = doc[1] THEN <<doc[1], Max(prev[j][2], doc[3])>> ELSE prev[j]]

\* one iteration of the loop that fills question_scores
AddQuestionScore(prev, doc) ==
    IF doc[2] # "question" THEN prev
    ELSE IF \A j \in DOMAIN prev : prev[j][1] # doc[1] THEN Append(prev, <<doc[1], doc[3]>>)
    ELSE [j \in DOMAIN prev |->
            IF prev[j][1] = doc[1] THEN <<doc[1], Max(prev[j][2], doc[3])>> ELSE prev[j]]

\* question_scores: << question_id, score >> in insertion order, max per question
QuestionScores(ranked_docs) ==
    LET F[i \in 0 .. Len(ranked_docs)] ==
            IF i = 0 THEN <<>> ELSE AddQuestionScore(F[i - 1], ranked_docs[i])
    IN  F[Len(ranked_docs)]

\* math.log(max(abs(so_score) + 3, 1)) * 1.5, in ten-thousandths
SoBoost(so_score) == (Ln(Max(Abs(so_score) + 3, 1)) * 3) \div 2

\* 3.0 / (1 + age_days / 365) for a creation date in the past, else 0.1, in ten-thousandths
\* (age_days is taken in whole days)
RecencyBoost(creation_date, current_time) ==
    IF creation_date > 0 /\ creation_date < current_time
    THEN (3 * Unit * 365) \div (365 + (current_time - creation_date) \div 86400)
    ELSE Unit \div 10

\* boosted_questions entry: << question_id, final_score, bm25_score >>
Boosted(db, question_id, bm25_score, current_time) ==
    With(get_question(db.questions, question_id), LAMBDA question :
        IF question # <<>>
        THEN <<question_id,
               bm25_score + SoBoost(question[1].score)
                          + RecencyBoost(question[1].creation_date, current_time),
               bm25_score>>
        ELSE <<question_id, bm25_score, bm25_score>>)

\* sorted(...)[:n]
Take(seq, n) == SubSeq(seq, 1, IF Len(seq) < n THEN Len(seq) ELSE n)

\* every question candidate boosted, none cut off
SortedQuestions_uncut(db, ranked_docs, current_time) ==
    With(SortDesc(QuestionScores(ranked_docs), LAMBDA q : q[2]), LAMBDA top_candidates :
        SortDesc([i \in DOMAIN top_candidates |->
                     Boosted(db, top_candidates[i][1], top_candidates[i][2], current_time)],
                 LAMBDA q : q[2]))

\* sorted_questions of _collect_results
SortedQuestions(db, ranked_docs, current_time) ==
    With(Take(SortDesc(QuestionScores(ranked_docs), LAMBDA q : q[2]), top_candidates_limit),
         LAMBDA top_candidates :
        SortDesc([i \in DOMAIN top_candidates |->
                     Boosted(db, top_candidates[i][1], top_candidates[i][2], current_time)],
                 LAMBDA q : q[2]))

\* the answers attached to a result
ShownAnswers(answers) ==
    [i \in DOMAIN answers |->
        [answer_id |-> answers[i].answer_id, score |-> answers[i].score,
         is_accepted |-> answers[i].is_accepted]]

\* one entry of results
ResultOf(db, question, entry) ==
    [question_id |-> entry[1],
     title |-> question.title,
     score |-> question.score,
     tags |-> question.tags,
     bm25_score |-> Round2(entry[3]),
     boosted_score |-> Round2(entry[2]),
     answers |-> ShownAnswers(Take(get_answers(db.answers, entry[1]), answers_limit))]

\* the result loop passing over an entry under the threshold instead of ending
CollectEntry_skip(prev, db, entry, min_score, tag) ==
    IF prev.stopped THEN prev
    ELSE IF Len(prev.results) >= max_results THEN [prev EXCEPT !.stopped = TRUE]
    ELSE IF BelowThreshold(entry, min_score) THEN prev
    ELSE With(get_question(db.questions, entry[1]), LAMBDA question :
        IF question = <<>> THEN prev
        ELSE IF TagExcluded(question[1], tag) THEN prev
        ELSE [prev EXCEPT !.results = Append(@, ResultOf(db, question[1], entry))])

\* one iteration of the result loop of _collect_results
CollectEntry(prev, db, entry, min_score, tag) ==
    IF prev.stopped THEN prev
    ELSE IF Len(prev.results) >= max_results THEN [prev EXCEPT !.stopped = TRUE]
    ELSE IF BelowThreshold(entry, min_score) THEN [prev EXCEPT !.stopped = TRUE]
    ELSE With(get_question(db.questions, entry[1]), LAMBDA question :
        IF question = <<>> THEN prev
        ELSE IF TagExcluded(question[1], tag) THEN prev
        ELSE [prev EXCEPT !.results = Append(@, ResultOf(db, question[1], entry))])

\* the result loop of _collect_results over sorted_questions
collect_results(db, sorted_questions, min_score, tag) ==
    LET F[i \in 0 .. Len(sorted_questions)] ==
            IF i = 0 THEN [results |-> <<>>, stopped |-> FALSE]
            ELSE CollectEntry(F[i - 1], db, sorted_questions[i], min_score, tag)
    IN  F[Len(sorted_questions)].results

\* candidate_docs of search_and_rank
CandidateDocs(db, query_terms) ==
    UNION { DocSet(get_postings(db.inverted_index, query_terms[i])) : i \in DOMAIN query_terms }

\* the tail of search_and_rank: the outcome of rank_documents goes through _collect_results
Collected(ranked, db, min_score, tag, current_time) ==
    IF ranked.raised # ""
    THEN [cache |-> ranked.cache, raised |-> ranked.raised, results |-> <<>>,
          sorted_questions |-> <<>>]
    ELSE With(SortedQuestions(db, ranked.scored_docs, current_time), LAMBDA sorted_questions :
            [cache |-> ranked.cache, raised |-> "",
             results |-> collect_results(db, sorted_questions, min_score, tag),
             sorted_questions |-> sorted_questions])

\* [cache, raised, results, sorted_questions] for the processed query; candidate_order is the
\* order in which the set candidate_docs is iterated
search_and_rank(cache, db, query_terms, min_score, tag, candidate_order, current_time) ==
    IF query_terms = <<>> \/ candidate_order = <<>>
    THEN [cache |-> cache, raised |-> "", results |-> <<>>, sorted_questions |-> <<>>]
    ELSE Collected(rank_documents(cache, db, query_terms, candidate_order),
                   db, min_score, tag, current_time)

\* clear_cache
EmptyCache == [total_docs |-> <<>>, avg_doc_length |-> <<>>, idf_cache |-> <<>>]

(***************************************************************************)
(* Inputs: the documents, queries and clock readings the callers supply    *)
(***************************************************************************)
\* bound on the number of calls that write to the store
MaxWrites == 2

Text_RestApis == <<"R","E","S","T"," ","A","P","I","s">>

Text_RestTheApi == <<"r","e","s","t"," ","t","h","e"," ","a","p","i">>

Text_ApiRest == <<"a","p","i"," ","r","e","s","t">>

Text_The == <<"t","h","e">>

Text_Java == <<"j","a","v","a">>

Text_RestApi == <<"r","e","s","t"," ","a","p","i">>

Text_JavaApis == <<"j","a","v","a"," ","<","b",">","a","p","i","s","<","/","b",">">>

Tag_Java == <<"j","a","v","a">>

Tag_Rest == <<"r","e","s","t">>

\* a clock reading and two creation dates before it (seconds)
Clock == 86400 * 800

Date_Old == 86400 * 70

Date_Recent == 86400 * 799

QuestionItems ==
    { [question_id |-> 1, title |-> Text_RestApis, body |-> Text_RestTheApi,
       tags |-> <<Tag_Java>>, score |-> 0, creation_date |-> Date_Old],
      [question_id |-> 1, title |-> Text_Java, body |-> Text_ApiRest,
       tags |-> <<>>, score |-> 40, creation_date |-> Date_Recent],
      [question_id |-> 2, title |-> Text_The, body |-> <<>>,
       tags |-> <<Tag_Rest>>, score |-> 0, creation_date |-> 0],
      [question_id |-> 2, title |-> Text_RestApi, body |-> Text_JavaApis,
       tags |-> <<Tag_Java, Tag_Rest>>, score |-> 40, creation_date |-> Date_Recent] }

AnswerItems ==
    { [answer_id |-> 11, question_id |-> 1, body |-> Text_RestTheApi,
       score |-> 2, is_accepted |-> TRUE],
      [answer_id |-> 11, question_id |-> 1, body |-> Text_Java,
       score |-> 2, is_accepted |-> TRUE],
      [answer_id |-> 12, question_id |-> 1, body |-> Text_ApiRest,
       score |-> 10, is_accepted |-> FALSE] }

Text_Payment == <<"p","a","y","m","e","n","t">>

Text_Ment == <<"m","e","n","t">>

Text_TheNess == <<"t","h","e"," ","n","e","s","s">>

Text_Ity == <<"i","t","y">>

\* the words stem is called for, and the documents indexed, where a word is a suffix
StemWords ==
    { Text_Payment, Text_Ment, <<"n","e","s","s">>, Text_Ity, Text_Java,
      <<"a","p","i","s">>, <<"i","n","g">>, <<"e","r">>, <<"s">> }

SuffixQuestions ==
    { [question_id |-> 1, title |-> Text_Payment, body |-> Text_Ment,
       tags |-> <<>>, score |-> 0, creation_date |-> Date_Old],
      [question_id |-> 1, title |-> Text_Java, body |-> Text_RestApi,
       tags |-> <<Tag_Java>>, score |-> 0, creation_date |-> Date_Old],
      [question_id |-> 2, title |-> Text_RestApi, body |-> Text_TheNess,
       tags |-> <<>>, score |-> 0, creation_date |-> Date_Old],
      [question_id |-> 2, title |-> Text_Payment, body |-> <<>>,
       tags |-> <<>>, score |-> 0, creation_date |-> Date_Old] }

SuffixAnswers ==
    { [answer_id |-> 11, question_id |-> 1, body |-> Text_Ity,
       score |-> 2, is_accepted |-> TRUE],
      [answer_id |-> 11, question_id |-> 1, body |-> Text_Payment,
       score |-> 2, is_accepted |-> TRUE] }

\* queries for process_query: a quoted phrase and a term, an empty pair of quotes
ReadQueries ==
    { <<Quote>> \o Text_RestApi \o <<Quote, " ">> \o Text_Java,
      Text_Java \o <<" ", Quote, Quote, " ">> \o Text_RestApis }

\* the requests, term lists and candidates of the reading operations
ReadRequests == { <<Text_RestApi, 0, <<>> >> }

ReadTermLists == { process(Text_Java) \o process(Text_RestApi) }

ReadDocs == { <<1, "question">>, <<2, "question_tag">> }

ReadCandidates == { { <<1, "question">>, <<2, "question">>, <<11, "answer">> } }

\* the answers a live result is cached with: none, or the first answer of the question
LiveAnswers(item) ==
    { <<>> } \cup { <<a>> : a \in { a \in AnswerItems : a.question_id = item.question_id
                                                        /\ a.body = item.body } }

\* search requests << query, min_score, tag >>: min_score in ten-thousandths (the API passes 20.0),
\* tag << >> is None
SearchRequests ==
    { <<Text_RestApi, 20 * Unit, <<>> >>,
      <<Text_RestApi, 3 * (Unit \div 10), <<>> >>,
      <<Text_RestApi, 0, Tag_Java>>,
      <<Text_Java, Unit \div 10, Tag_Java>>,
      <<Text_The, 20 * Unit, <<>> >> }

Phrases == { Text_RestTheApi, Text_RestApis, Text_ApiRest, Text_The }

TermLists == { process(Text_RestApi), process(Text_Java) }

Tag_SpringBoot == <<"s", "p", "r", "i", "n", "g", "-", "b", "o", "o", "t">>

Tag_SpringBootTitle == <<"S", "p", "r", "i", "n", "g", "-", "B", "o", "o", "t">>

Tag_JAVA == <<"J", "A", "V", "A">>

\* a downloaded question with its downloaded answers
Downloaded(question_id, title, body, tags, score, creation_date, downloaded_answers) ==
    [question_id |-> question_id, title |-> title, body |-> body, tags |-> tags,
     score |-> score, creation_date |-> creation_date, answers |-> downloaded_answers]

DownloadedAnswer(answer_id, body, score, is_accepted) ==
    [answer_id |-> answer_id, body |-> body, score |-> score, is_accepted |-> is_accepted]

\* what a run of the downloader brings: a page of seven questions, a later page that
\* brings two of them again, changed, and a page with a question nobody answered
Batches ==
    { << Downloaded(1, Text_RestApi, Text_JavaApis, <<Tag_Rest>>, 40, Date_Recent,
                    << DownloadedAnswer(11, Text_RestTheApi, 2, TRUE),
                       DownloadedAnswer(12, Text_ApiRest, 10, FALSE),
                       DownloadedAnswer(13, Text_Java, 5, FALSE),
                       DownloadedAnswer(14, Text_RestApi, 7, FALSE) >>),
         Downloaded(2, Text_RestApis, Text_RestTheApi, <<>>, 40, Date_Recent,
                    << DownloadedAnswer(21, Text_Java, 0, FALSE) >>),
         Downloaded(3, Text_RestApi, Text_Java, <<Tag_Java>>, 10, Date_Old,
                    << DownloadedAnswer(31, Text_ApiRest, 1, TRUE) >>),
         Downloaded(4, Text_RestApis, Text_ApiRest, <<Tag_SpringBoot, Tag_Java>>, 0, Date_Old,
                    << DownloadedAnswer(41, Text_The, 1, FALSE) >>),
         Downloaded(5, Text_ApiRest, <<>>, <<Tag_Java, Tag_Rest>>, 0, 0,
                    << DownloadedAnswer(51, Text_Java, 3, FALSE) >>),
         Downloaded(6, Text_RestApi, Text_RestTheApi, <<Tag_JAVA>>, 2, Date_Old,
                    << DownloadedAnswer(61, Text_RestApi, 0, TRUE) >>),
         Downloaded(7, Text_RestTheApi, Text_The, <<Tag_SpringBootTitle, Tag_Java>>, 1, Date_Old,
                    << DownloadedAnswer(71, Text_Java, 0, FALSE) >>) >>,
      << Downloaded(1, Text_Java, Text_ApiRest, <<Tag_Java>>, 0, Date_Old,
                    << DownloadedAnswer(11, Text_Java, 9, FALSE),
                       DownloadedAnswer(15, Text_RestApi, 9, TRUE) >>),
         Downloaded(3, Text_The, <<>>, <<Tag_Rest>>, 40, Date_Recent,
                    << DownloadedAnswer(31, Text_RestTheApi, 1, TRUE) >>) >>,
      << Downloaded(8, Text_RestApi, Text_RestApi, <<Tag_Java>>, 40, Date_Recent, <<>>),
         Downloaded(2, Text_Java, Text_JavaApis, <<Tag_SpringBoot>>, 40, Date_Recent,
                    << DownloadedAnswer(22, Text_RestApis, 4, TRUE) >>) >> }

\* two questions more than the boosting stage takes, as one page of live results: all
\* have the same title, the last one has a body besides, the highest score and the latest
\* date; no answers come with them
BulkSize == top_candidates_limit + 2

BulkItem(n) ==
    [item |-> [question_id |-> 100 + n, title |-> Text_RestApi,
               body |-> IF n = BulkSize THEN Text_Java ELSE <<>>, tags |-> <<>>,
               score |-> IF n = BulkSize THEN 40 ELSE 5 * (n % 3),
               creation_date |-> IF n = BulkSize \/ n % 2 = 0 THEN Date_Recent ELSE Date_Old],
     answers |-> <<>>]

\* the large page and a small page that changes a question of the large page
LivePages ==
    { [n \in 1 .. BulkSize |-> BulkItem(n)],
      << [item |-> [question_id |-> 101, title |-> Text_Java, body |-> Text_The,
                    tags |-> <<Tag_Java>>, score |-> 2, creation_date |-> Date_Old],
          answers |-> << [answer_id |-> 301, question_id |-> 101, body |-> Text_Java,
                          score |-> 3, is_accepted |-> TRUE] >>],
         [item |-> [question_id |-> 201, title |-> Text_RestApis, body |-> Text_Java,
                    tags |-> <<>>, score |-> 0, creation_date |-> Date_Recent],
          answers |-> <<>>] >> }

BulkRequests ==
    { <<Text_RestApi, 0, <<>> >>,
      <<Text_Java, 0, <<>> >>,
      <<Text_RestApi, 20 * Unit, <<>> >> }

\* search requests on the downloaded corpus
CorpusRequests ==
    { <<Text_RestApi, 0, <<>> >>,
      <<Text_RestApi, 0, Tag_JAVA>>,
      <<Text_Java, Unit \div 10, Tag_Java>>,
      <<Text_RestApi, 52 * (Unit \div 10), <<>> >> }

\* search requests whose query is empty, is made of stopwords, or may match nothing
QueryRequests ==
    { << <<>>, 0, <<>> >>,
      <<Text_The, 0, <<>> >>,
      <<Text_Java, 0, <<>> >> }

\* phrases that are empty, are made of stopwords, or have terms
QueryPhrases == { <<>>, Text_The, Text_RestApis }

\* the empty list of terms and a list of two
EmptyOrTerms == { <<>>, process(Text_RestApi) }

\* bound on the number of fragments a text is made of
MaxFragments == 2

\* pieces of text: markup, code spans, stopwords, words that stem, punctuation
Fragments ==
    { <<"<", "b", ">">>,
      <<"<">>,
      <<">">>,
      <<Backquote, "x", Backquote>>,
      <<Backquote>>,
      <<Backquote, Backquote, Backquote, "a", Backquote, Backquote, Backquote>>,
      <<" ", "T", "h", "e", " ">>,
      <<"A", "P", "I", "s", ".">>,
      <<" ", "c", "+", "+", " ", "c", "#", " ">>,
      <<"x", "-", "1", "_", "y">>,
      <<"i", "n", "s", "\t">> }

RECURSIVE Concat(_)
Concat(pieces) == IF pieces = <<>> THEN <<>> ELSE Head(pieces) \o Concat(Tail(pieces))

\* the texts made of at most MaxFragments fragments
Texts == { Concat(pieces) : pieces \in UNION { [1 .. n -> Fragments] : n \in 0 .. MaxFragments } }

\* query terms for score_document: two terms, four terms one of which is posted nowhere,
\* and a term given twice
ScoreTermLists ==
    { process(Text_RestApi),
      process(Text_Java) \o process(Text_RestApi) \o <<Tag_SpringBoot>>,
      process(Text_Java) \o process(Text_Java) }

\* the terms _calculate_idf is called for; the last is posted nowhere
IdfTerms == Range(process(Text_Java)) \cup { Tag_SpringBoot }

\* the documents score_document is called for
ScoreDocs == { <<1, "question">>, <<2, "question">>, <<11, "answer">>, <<2, "question_tag">> }

\* term lists for optimize_query_terms and boolean_retrieval
QueryTermLists ==
    { <<>>,
      process(Text_Java),
      process(Text_RestApi),
      process(Text_ApiRest),
      process(Text_Java) \o process(Text_RestApi),
      process(Text_RestApi) \o process(Text_Java) \o process(Text_ApiRest) }

Clocks == { Clock }

DocTypeRank(doc_type) ==
    IF doc_type = "question" THEN 0 ELSE IF doc_type = "answer" THEN 1 ELSE 2

DocRank(doc) == 3 * doc[1] + DocTypeRank(doc[2])

RECURSIVE Ascending(_)
Ascending(docs) ==
    IF docs = {} THEN <<>>
    ELSE LET least == CHOOSE d \in docs : \A e \in docs : DocRank(d) <= DocRank(e)
         IN  <<least>> \o Ascending(docs \ {least})

Reverse(seq) == [i \in DOMAIN seq |-> seq[Len(seq) + 1 - i]]

\* the orders in which a set of (doc_id, doc_type) pairs may be iterated
IterationOrders(docs) == { Ascending(docs), Reverse(Ascending(docs)) }

(***************************************************************************)
(* State                                                                   *)
(***************************************************************************)
VARIABLES
    questions,       \* table questions: question_id -> row
    answers,         \* table answers: answer_id -> row
    inverted_index,  \* table inverted_index: (term, doc_id, doc_type) -> row
    biword_index,    \* rows of biword_index, a table initialize_database never creates
    doc_stats,       \* table doc_stats: (doc_id, doc_type) -> doc_length
    cache,           \* the fields total_docs, avg_doc_length, idf_cache of the shared ranker
    ret,             \* the last call: operation, arguments, exception raised, value returned
    indexed,         \* (doc_id, doc_type) -> the text and tags of the last indexing call for it
    writes,          \* number of writing calls so far
    inflight         \* the indexing call a thread is in the middle of, with the statement
                     \* it has reached; << >> when there is none

vars == <<questions, answers, inverted_index, biword_index, doc_stats, cache, ret, indexed,
          writes, inflight>>

tables == <<questions, answers, inverted_index, biword_index, doc_stats>>

db == [questions |-> questions, answers |-> answers, inverted_index |-> inverted_index,
       doc_stats |-> doc_stats]

\* ret for a call; failed is the set of store writes of the call that raised inside the store,
\* ranked the list sorted_questions a search went through, again whether the call repeats
\* the call before it
Return(op, args, raised, value, failed, ranked) ==
    [op |-> op, args |-> args, raised |-> raised, value |-> value, failed |-> failed,
     ranked |-> ranked, again |-> (ret.op = op /\ ret.args = args)]

\* a TextProcessor and a text handed to it
InitText ==
    /\ questions = <<>>
    /\ answers = <<>>
    /\ inverted_index = <<>>
    /\ biword_index = <<>>
    /\ doc_stats = <<>>
    /\ cache = EmptyCache
    /\ \E text \in Texts :
           ret = [op |-> "text", args |-> <<text>>, raised |-> "", value |-> <<>>,
                  failed |-> {}, ranked |-> <<>>, again |-> FALSE]
    /\ indexed = <<>>
    /\ writes = 0
    /\ inflight = <<>>

Init ==
    /\ questions = <<>>
    /\ answers = <<>>
    /\ inverted_index = <<>>
    /\ biword_index = <<>>
    /\ doc_stats = <<>>
    /\ cache = EmptyCache
    /\ ret = [op |-> "__init__", args |-> <<>>, raised |-> "", value |-> <<>>, failed |-> {},
              ranked |-> <<>>, again |-> FALSE]
    /\ indexed = <<>>
    /\ writes = 0
    /\ inflight = <<>>

\* the row insert_question stores
QuestionRow(item) ==
    [title |-> item.title, body |-> item.body, tags |-> json_dumps_strs(item.tags),
     score |-> item.score, creation_date |-> item.creation_date]

\* the row insert_answer stores
AnswerRow(item) ==
    [question_id |-> item.question_id, body |-> item.body, score |-> item.score,
     is_accepted |-> item.is_accepted]

\* the store writes index_question / index_answer issue for a text
WritesOf(text, doc_type, tags) ==
    LET tokens_with_positions == process_with_positions(text)
        terms == term_positions(tokens_with_positions)
        pairs == biword_positions(tokens_with_positions)
    IN  { <<"inverted_index", terms[i][1], doc_type>> : i \in DOMAIN terms }
        \cup { <<"biword_index", pairs[i][1], doc_type>> : i \in DOMAIN pairs }
        \cup { <<"doc_stats", doc_type>> }
        \cup { <<"inverted_index", stem(Lower(tags[i])), "question_tag">> : i \in DOMAIN tags }

\* the writes that raise: those the environment fails and those on a missing table
FailedWrites(issued, failing) ==
    { w \in issued : w \in failing \/ w[1] \notin Tables }

(***************************************************************************)
(* Operations                                                              *)
(***************************************************************************)
InsertQuestion(item) ==
    /\ writes < MaxWrites
    /\ questions' = Upsert(questions, item.question_id, QuestionRow(item))
    /\ ret' = Return("insert_question", <<item.question_id>>, "", TRUE, {}, <<>>)
    /\ writes' = writes + 1
    /\ UNCHANGED <<answers, inverted_index, biword_index, doc_stats, cache, indexed, inflight>>

InsertAnswer(item) ==
    /\ writes < MaxWrites
    /\ answers' = Upsert(answers, item.answer_id, AnswerRow(item))
    /\ ret' = Return("insert_answer", <<item.answer_id>>, "", TRUE, {}, <<>>)
    /\ writes' = writes + 1
    /\ UNCHANGED <<questions, inverted_index, biword_index, doc_stats, cache, indexed, inflight>>

\* Indexer.index_question while the store fails the writes in failing
IndexQuestionCall(item, failing) ==
    LET after == index_question(inverted_index, biword_index, doc_stats,
                                item.question_id, item.title, item.body, item.tags, failing)
    IN  /\ writes < MaxWrites
        /\ inverted_index' = after.inverted_index
        /\ biword_index' = after.biword_index
        /\ doc_stats' = after.doc_stats
        /\ ret' = Return("index_question",
                         <<item.question_id, item.title, item.body, item.tags>>, "", <<>>,
                         FailedWrites(WritesOf(full_text(item.title, item.body),
                                               "question", item.tags), failing),
                         <<>>)
        /\ indexed' = Upsert(indexed, <<item.question_id, "question">>,
                             [text |-> full_text(item.title, item.body), tags |-> item.tags,
                              title |-> item.title, body |-> item.body])
        /\ writes' = writes + 1
        /\ UNCHANGED <<questions, answers, cache, inflight>>

\* Indexer.index_answer while the store fails the writes in failing
IndexAnswerCall(item, failing) ==
    LET after == index_answer(inverted_index, biword_index, doc_stats,
                              item.answer_id, item.question_id, item.body, failing)
    IN  /\ writes < MaxWrites
        /\ inverted_index' = after.inverted_index
        /\ biword_index' = after.biword_index
        /\ doc_stats' = after.doc_stats
        /\ ret' = Return("index_answer", <<item.answer_id, item.question_id, item.body>>,
                         "", <<>>,
                         FailedWrites(WritesOf(item.body, "answer", <<>>), failing), <<>>)
        /\ indexed' = Upsert(indexed, <<item.answer_id, "answer">>,
                             [text |-> item.body, tags |-> <<>>, title |-> <<>>, body |-> item.body])
        /\ writes' = writes + 1
        /\ UNCHANGED <<questions, answers, cache, inflight>>

IndexQuestion == \E item \in QuestionItems : IndexQuestionCall(item, {})

(***************************************************************************)
(* index_question and index_answer statement by statement, for a thread    *)
(* that runs beside the searching threads of the API process. Every store  *)
(* call commits on its own; a step is one of the statements of the method: *)
(* the loop over term_positions, the loop over biword_positions, the call  *)
(* of insert_doc_stats, the loop over tags.                                *)
(***************************************************************************)
InflightDoc ==
    IF inflight[1].op = "index_question"
    THEN <<inflight[1].item.question_id, "question">>
    ELSE <<inflight[1].item.answer_id, "answer">>

InflightText ==
    IF inflight[1].op = "index_question"
    THEN full_text(inflight[1].item.title, inflight[1].item.body)
    ELSE inflight[1].item.body

\* index_question enters and runs its loop over term_positions
IndexQuestionTerms(item) ==
    /\ inflight = <<>>
    /\ writes < MaxWrites
    /\ inverted_index' = WriteTerms(inverted_index,
                                    term_positions(process_with_positions(
                                        full_text(item.title, item.body))),
                                    item.question_id, "question", {})
    /\ inflight' = <<[op |-> "index_question", item |-> item, pc |-> "biwords"]>>
    /\ UNCHANGED <<questions, answers, biword_index, doc_stats, cache, ret, indexed, writes>>

\* index_answer enters and runs its loop over term_positions
IndexAnswerTerms(item) ==
    /\ inflight = <<>>
    /\ writes < MaxWrites
    /\ inverted_index' = WriteTerms(inverted_index,
                                    term_positions(process_with_positions(item.body)),
                                    item.answer_id, "answer", {})
    /\ inflight' = <<[op |-> "index_answer", item |-> item, pc |-> "biwords"]>>
    /\ UNCHANGED <<questions, answers, biword_index, doc_stats, cache, ret, indexed, writes>>

\* the loop over biword_positions
IndexBiwords ==
    /\ inflight # <<>>
    /\ inflight[1].pc = "biwords"
    /\ biword_index' = WriteBiwords(biword_index,
                                    biword_positions(process_with_positions(InflightText)),
                                    InflightDoc[1], InflightDoc[2], {})
    /\ inflight' = <<[inflight[1] EXCEPT !.pc = "doc_stats"]>>
    /\ UNCHANGED <<questions, answers, inverted_index, doc_stats, cache, ret, indexed, writes>>

\* insert_doc_stats; index_answer returns after it
IndexDocStats ==
    /\ inflight # <<>>
    /\ inflight[1].pc = "doc_stats"
    /\ doc_stats' = insert_doc_stats(doc_stats, InflightDoc[1], InflightDoc[2],
                                     Len(process_with_positions(InflightText)), {})
    /\ IF inflight[1].op = "index_question"
       THEN /\ inflight' = <<[inflight[1] EXCEPT !.pc = "tags"]>>
            /\ UNCHANGED <<ret, indexed, writes>>
       ELSE /\ inflight' = <<>>
            /\ ret' = Return("index_answer",
                             <<inflight[1].item.answer_id, inflight[1].item.question_id,
                               inflight[1].item.body>>, "", <<>>, {}, <<>>)
            /\ indexed' = Upsert(indexed, InflightDoc,
                                 [text |-> InflightText, tags |-> <<>>,
                                  title |-> <<>>, body |-> inflight[1].item.body])
            /\ writes' = writes + 1
    /\ UNCHANGED <<questions, answers, inverted_index, biword_index, cache>>

\* the loop over tags, after which index_question returns
IndexQuestionTags ==
    /\ inflight # <<>>
    /\ inflight[1].pc = "tags"
    /\ inverted_index' = WriteTags(inverted_index, inflight[1].item.tags, InflightDoc[1], {})
    /\ inflight' = <<>>
    /\ ret' = Return("index_question",
                     <<inflight[1].item.question_id, inflight[1].item.title,
                       inflight[1].item.body, inflight[1].item.tags>>, "", <<>>, {}, <<>>)
    /\ indexed' = Upsert(indexed, InflightDoc,
                         [text |-> InflightText, tags |-> inflight[1].item.tags,
                          title |-> inflight[1].item.title, body |-> inflight[1].item.body])
    /\ writes' = writes + 1
    /\ UNCHANGED <<questions, answers, biword_index, doc_stats, cache>>

IndexAnswer == \E item \in AnswerItems : IndexAnswerCall(item, {})

\* the store failures tried: one write to an existing table fails
FaultSets(issued) == { {w} : w \in { w \in issued : w[1] \in Tables } }

\* index_question while one of its store writes fails
IndexQuestionStoreFault ==
    \E item \in QuestionItems :
        \E failing \in FaultSets(WritesOf(full_text(item.title, item.body), "question", item.tags)) :
            IndexQuestionCall(item, failing)

\* index_answer while one of its store writes fails
IndexAnswerStoreFault ==
    \E item \in AnswerItems :
        \E failing \in FaultSets(WritesOf(item.body, "answer", <<>>)) :
            IndexAnswerCall(item, failing)

\* one iteration of the loop over a question's answers in download_and_store
StoreDownloadedAnswer(prev, question_id, answer) ==
    Upsert(prev, answer.answer_id, AnswerRow([question_id |-> question_id] @@ answer))

\* one iteration of the loop over questions in download_and_store: a question without
\* downloaded answers is skipped
StoreDownloaded(prev, question) ==
    IF question.answers = <<>> THEN prev
    ELSE LET F[i \in 0 .. Len(question.answers)] ==
                 IF i = 0 THEN prev.answers
                 ELSE StoreDownloadedAnswer(F[i - 1], question.question_id, question.answers[i])
         IN  [questions |-> Upsert(prev.questions, question.question_id, QuestionRow(question)),
              answers |-> F[Len(question.answers)]]

\* StackOverflowDownloader.download_and_store, after the download
download_and_store(stored_questions, stored_answers, batch) ==
    LET F[i \in 0 .. Len(batch)] ==
            IF i = 0 THEN [questions |-> stored_questions, answers |-> stored_answers]
            ELSE StoreDownloaded(F[i - 1], batch[i])
    IN  F[Len(batch)]

\* one iteration of the loop over answers in download_and_index
IndexStoredAnswer(prev, answer) ==
    With(index_answer(prev.inverted_index, prev.biword_index, prev.doc_stats,
                      answer.answer_id, answer.question_id, answer.body, {}),
         LAMBDA after :
             [prev EXCEPT !.inverted_index = after.inverted_index,
                          !.biword_index = after.biword_index,
                          !.doc_stats = after.doc_stats,
                          !.indexed = Upsert(@, <<answer.answer_id, "answer">>,
                                             [text |-> answer.body, tags |-> <<>>,
                                              title |-> <<>>, body |-> answer.body])])

\* the question part of one iteration of the loop over questions in download_and_index
IndexStoredQuestionRow(prev, question_id, q_dict, tags_json) ==
    With(index_question(prev.inverted_index, prev.biword_index, prev.doc_stats,
                        question_id, q_dict.title, q_dict.body, tags_json, {}),
         LAMBDA after :
             [prev EXCEPT !.inverted_index = after.inverted_index,
                          !.biword_index = after.biword_index,
                          !.doc_stats = after.doc_stats,
                          !.indexed = Upsert(@, <<question_id, "question">>,
                                             [text |-> full_text(q_dict.title, q_dict.body),
                                              tags |-> tags_json,
                                              title |-> q_dict.title,
                                              body |-> q_dict.body])])

\* one iteration of the loop over questions in download_and_index
IndexStoredQuestion(prev, stored, question_id) ==
    With(get_answers(stored.answers, question_id), LAMBDA stored_answers :
        LET F[i \in 0 .. Len(stored_answers)] ==
                IF i = 0
                THEN IndexStoredQuestionRow(prev, question_id, stored.questions[question_id],
                         json_loads_strs(stored.questions[question_id].tags))
                ELSE IndexStoredAnswer(F[i - 1], stored_answers[i])
        IN  F[Len(stored_answers)])

\* the loop over SELECT * FROM questions in download_and_index
IndexStored(stored, index, biwords, stats, texts) ==
    With(IdsAscending(DOMAIN stored.questions), LAMBDA ids :
        LET F[i \in 0 .. Len(ids)] ==
                IF i = 0
                THEN [inverted_index |-> index, biword_index |-> biwords, doc_stats |-> stats,
                      indexed |-> texts]
                ELSE IndexStoredQuestion(F[i - 1], stored, ids[i])
        IN  F[Len(ids)])

\* main.download_and_index: store what was downloaded, then index every stored question
\* with its stored answers
DownloadAndIndex(batch) ==
    /\ writes < MaxWrites
    /\ With(download_and_store(questions, answers, batch), LAMBDA stored :
         With(IndexStored(stored, inverted_index, biword_index, doc_stats, indexed),
              LAMBDA after :
               /\ questions' = stored.questions
               /\ answers' = stored.answers
               /\ inverted_index' = after.inverted_index
               /\ biword_index' = after.biword_index
               /\ doc_stats' = after.doc_stats
               /\ indexed' = after.indexed))
    /\ ret' = Return("download_and_index",
                     <<[i \in DOMAIN batch |-> batch[i].question_id]>>, "", <<>>, {}, <<>>)
    /\ writes' = writes + 1
    /\ UNCHANGED <<cache, inflight>>

\* one iteration of the loop over answers in _cache_live_result
CacheLiveAnswer(prev, answer_data) ==
    [answers |-> Upsert(prev.answers, answer_data.answer_id, AnswerRow(answer_data)),
     indexed |-> Upsert(prev.indexed, <<answer_data.answer_id, "answer">>,
                        [text |-> answer_data.body, tags |-> <<>>,
                         title |-> <<>>, body |-> answer_data.body])]
    @@ index_answer(prev.inverted_index, prev.biword_index, prev.doc_stats,
                    answer_data.answer_id, answer_data.question_id, answer_data.body, {})

\* api._cache_live_result(item, answers): insert and index the question, then each answer
\* under the question's id; the ranker is not told
CacheLiveResult(item, live_answers) ==
    LET F[i \in 0 .. Len(live_answers)] ==
            IF i = 0
            THEN [answers |-> answers,
                  indexed |-> Upsert(indexed, <<item.question_id, "question">>,
                                     [text |-> full_text(item.title, item.body),
                                      tags |-> item.tags,
                                      title |-> item.title, body |-> item.body])]
                 @@ index_question(inverted_index, biword_index, doc_stats,
                                   item.question_id, item.title, item.body, item.tags, {})
            ELSE CacheLiveAnswer(F[i - 1],
                                 [live_answers[i] EXCEPT !.question_id = item.question_id])
    IN  /\ writes < MaxWrites
        /\ questions' = Upsert(questions, item.question_id, QuestionRow(item))
        /\ With(F[Len(live_answers)], LAMBDA after :
               /\ answers' = after.answers
               /\ inverted_index' = after.inverted_index
               /\ biword_index' = after.biword_index
               /\ doc_stats' = after.doc_stats
               /\ indexed' = after.indexed)
        /\ ret' = Return("_cache_live_result", <<item.question_id>>, "", <<>>, {}, <<>>)
        /\ writes' = writes + 1
        /\ UNCHANGED <<cache, inflight>>

\* _cache_live_result(item, answers) as one iteration of the loop over items in
\* _fetch_live_results
\* the store after insert_question and index_question for item
CacheLiveQuestion(prev, item) ==
    [prev EXCEPT
        !.questions = Upsert(@, item.question_id, QuestionRow(item)),
        !.indexed = Upsert(@, <<item.question_id, "question">>,
                           [text |-> full_text(item.title, item.body), tags |-> item.tags,
                            title |-> item.title, body |-> item.body]),
        !.inverted_index = index_question(@, prev.biword_index, prev.doc_stats,
                                          item.question_id, item.title, item.body,
                                          item.tags, {}).inverted_index,
        !.biword_index = index_question(prev.inverted_index, @, prev.doc_stats,
                                        item.question_id, item.title, item.body,
                                        item.tags, {}).biword_index,
        !.doc_stats = index_question(prev.inverted_index, prev.biword_index, @,
                                     item.question_id, item.title, item.body,
                                     item.tags, {}).doc_stats]

\* the part "if answers:" of _cache_live_result comes after the question is stored
CacheLiveItem(prev, item, live_answers) ==
    IF live_answers = <<>> THEN CacheLiveQuestion(prev, item)
    ELSE LET F[i \in 0 .. Len(live_answers)] ==
                 IF i = 0 THEN CacheLiveQuestion(prev, item)
                 ELSE With(F[i - 1], LAMBDA done :
                         CacheLiveAnswer(done, [live_answers[i] EXCEPT
                                                   !.question_id = item.question_id])
                         @@ [questions |-> done.questions])
         IN  F[Len(live_answers)]

\* api._fetch_live_results once the page of items has come: every item is cached with the
\* answers fetched for it
FetchLiveResults(page) ==
    LET F[i \in 0 .. Len(page)] ==
            IF i = 0
            THEN [questions |-> questions, answers |-> answers,
                  inverted_index |-> inverted_index, biword_index |-> biword_index,
                  doc_stats |-> doc_stats, indexed |-> indexed]
            ELSE CacheLiveItem(F[i - 1], page[i].item, page[i].answers)
    IN  /\ writes < MaxWrites
        /\ With(F[Len(page)], LAMBDA after :
               /\ questions' = after.questions
               /\ answers' = after.answers
               /\ inverted_index' = after.inverted_index
               /\ biword_index' = after.biword_index
               /\ doc_stats' = after.doc_stats
               /\ indexed' = after.indexed)
        /\ ret' = Return("_fetch_live_results",
                         <<[i \in DOMAIN page |-> page[i].item.question_id]>>, "", <<>>, {},
                         <<>>)
        /\ writes' = writes + 1
        /\ UNCHANGED <<cache, inflight>>

\* search_and_rank once the query is processed and the candidates are gathered
SearchTerms(query, query_terms, candidates, min_score, tag, current_time) ==
    \E candidate_order \in IterationOrders(candidates) :
        With(search_and_rank(cache, db, query_terms, min_score, tag, candidate_order,
                             current_time), LAMBDA got :
            /\ cache' = got.cache
            /\ ret' = Return("search_and_rank", <<query, min_score, tag>>, got.raised,
                             got.results, {}, got.sorted_questions))

\* BM25Ranker.search_and_rank(query, min_score, tag) on the shared ranker
SearchAndRank(query, min_score, tag, current_time) ==
    /\ With(process(query), LAMBDA query_terms :
           SearchTerms(query, query_terms, CandidateDocs(db, query_terms), min_score, tag,
                       current_time))
    /\ UNCHANGED <<tables, indexed, writes, inflight>>

\* score_document that stores the default length of a document without statistics
ScoreDocument_backfill(query_terms, doc_id, doc_type) ==
    /\ With(score_document(cache, db, query_terms, doc_id, doc_type), LAMBDA got :
           /\ cache' = got.cache
           /\ ret' = Return("score_document", <<query_terms, doc_id, doc_type>>, got.raised,
                            got.score, {}, <<>>))
    /\ doc_stats' = IF <<doc_id, doc_type>> \in DOMAIN doc_stats THEN doc_stats
                    ELSE Upsert(doc_stats, <<doc_id, doc_type>>, 1)
    /\ UNCHANGED <<questions, answers, inverted_index, biword_index, indexed, writes, inflight>>

\* BM25Ranker.score_document(query_terms, doc_id, doc_type) on the shared ranker
ScoreDocument(query_terms, doc_id, doc_type) ==
    /\ With(score_document(cache, db, query_terms, doc_id, doc_type), LAMBDA got :
           /\ cache' = got.cache
           /\ ret' = Return("score_document", <<query_terms, doc_id, doc_type>>, got.raised,
                            got.score, {}, <<>>))
    /\ UNCHANGED <<tables, indexed, writes, inflight>>

\* BM25Ranker.rank_documents(query_terms, candidate_docs) with the default field_weights
RankDocuments(query_terms, candidate_docs) ==
    /\ With(rank_documents(cache, db, query_terms, Ascending(candidate_docs)), LAMBDA got :
           /\ cache' = got.cache
           /\ ret' = Return("rank_documents", <<query_terms, candidate_docs>>, got.raised,
                            got.scored_docs, {}, <<>>))
    /\ UNCHANGED <<tables, indexed, writes, inflight>>

\* QueryProcessor.process_query(query)
ProcessQuery(query) ==
    /\ ret' = Return("process_query", <<query>>, "", process_query(query), {}, <<>>)
    /\ UNCHANGED <<tables, cache, indexed, writes, inflight>>

\* BM25Ranker._calculate_idf(term) on the shared ranker
CalculateIdf(term) ==
    /\ With(_calculate_idf(cache, db, term), LAMBDA got :
           /\ cache' = got.cache
           /\ ret' = Return("_calculate_idf", <<term>>, "", got.idf, {}, <<>>))
    /\ UNCHANGED <<tables, indexed, writes, inflight>>

\* BM25Ranker.clear_cache
ClearCache ==
    /\ cache' = EmptyCache
    /\ ret' = Return("clear_cache", <<>>, "", <<>>, {}, <<>>)
    /\ UNCHANGED <<tables, indexed, writes, inflight>>

\* QueryProcessor.phrase_search(phrase)
PhraseSearch(phrase) ==
    /\ ret' = Return("phrase_search", <<phrase>>, "", phrase_search(inverted_index, phrase),
                     {}, <<>>)
    /\ UNCHANGED <<tables, cache, indexed, writes, inflight>>

\* QueryProcessor.biword_search(terms)
BiwordSearch(terms) ==
    LET got == biword_search(biword_index, terms)
    IN  /\ ret' = Return("biword_search", <<terms>>, got.raised, got.value, {}, <<>>)
        /\ UNCHANGED <<tables, cache, indexed, writes, inflight>>

\* QueryProcessor.optimize_query_terms(terms)
OptimizeQueryTerms(terms) ==
    /\ ret' = Return("optimize_query_terms", <<terms>>, "",
                     optimize_query_terms(inverted_index, terms), {}, <<>>)
    /\ UNCHANGED <<tables, cache, indexed, writes, inflight>>

\* QueryProcessor.boolean_retrieval(terms)
BooleanRetrieval(terms) ==
    /\ ret' = Return("boolean_retrieval", <<terms>>, "",
                     boolean_retrieval(inverted_index, terms), {}, <<>>)
    /\ UNCHANGED <<tables, cache, indexed, writes, inflight>>

\* ingestion through the Indexer and lookups through the QueryProcessor
IndexerNext ==
    \/ IndexQuestion
    \/ IndexAnswer
    \/ \E phrase \in Phrases : PhraseSearch(phrase)
    \/ \E terms \in TermLists : BiwordSearch(terms)

\* the API process: live results are cached while the shared ranker serves searches
RankerNext ==
    \/ \E item \in QuestionItems : \E live_answers \in LiveAnswers(item) :
           CacheLiveResult(item, live_answers)
    \/ \E request \in SearchRequests, now \in Clocks :
           SearchAndRank(request[1], request[2], request[3], now)
    \/ ClearCache

\* ingestion through the Indexer and boolean retrieval through the QueryProcessor
RetrievalNext ==
    \/ IndexQuestion
    \/ IndexAnswer
    \/ \E terms \in QueryTermLists : OptimizeQueryTerms(terms)
    \/ \E terms \in QueryTermLists : BooleanRetrieval(terms)

\* TextProcessor.tokenize(text)
Tokenize ==
    /\ ret.op = "text"
    /\ ret' = Return("tokenize", ret.args, "", tokenize(ret.args[1]), {}, <<>>)
    /\ UNCHANGED <<tables, cache, indexed, writes, inflight>>

\* TextProcessor.stem(word)
Stem(word) ==
    /\ ret' = Return("stem", <<word>>, "", stem(word), {}, <<>>)
    /\ UNCHANGED <<tables, cache, indexed, writes, inflight>>

\* TextProcessor.process(text, remove_stopwords, apply_stemming)
Process(removing, stemming) ==
    /\ ret.op = "text"
    /\ ret' = Return("process", <<ret.args[1], removing, stemming>>, "",
                     process_flags(ret.args[1], removing, stemming), {}, <<>>)
    /\ UNCHANGED <<tables, cache, indexed, writes, inflight>>

\* TextProcessor.process_with_positions(text, remove_stopwords, apply_stemming)
ProcessWithPositions(removing, stemming) ==
    /\ ret.op = "text"
    /\ ret' = Return("process_with_positions", <<ret.args[1], removing, stemming>>, "",
                     process_with_positions_flags(ret.args[1], removing, stemming), {}, <<>>)
    /\ UNCHANGED <<tables, cache, indexed, writes, inflight>>

\* TextProcessor.create_biwords(tokens) on the tokens an earlier call returned
CreateBiwords ==
    /\ ret.op \in {"tokenize", "process"}
    /\ ret' = Return("create_biwords", <<ret.value>>, "", create_biwords(ret.value), {}, <<>>)
    /\ UNCHANGED <<tables, cache, indexed, writes, inflight>>

\* the calls on a TextProcessor
TextNext ==
    \/ Tokenize
    \/ \E removing \in BOOLEAN, stemming \in BOOLEAN : Process(removing, stemming)
    \/ \E removing \in BOOLEAN, stemming \in BOOLEAN : ProcessWithPositions(removing, stemming)
    \/ CreateBiwords

\* words are stemmed and documents made of such words are indexed
StemNext ==
    \/ \E word \in StemWords : Stem(word)
    \/ \E item \in SuffixQuestions : IndexQuestionCall(item, {})
    \/ \E item \in SuffixAnswers : IndexAnswerCall(item, {})

\* live results are cached while the ranker and the QueryProcessor read the store
ReadsNext ==
    \/ \E item \in QuestionItems : \E live_answers \in LiveAnswers(item) :
           CacheLiveResult(item, live_answers)
    \/ \E request \in ReadRequests, now \in Clocks :
           SearchAndRank(request[1], request[2], request[3], now)
    \/ \E query_terms \in ReadTermLists, doc \in ReadDocs :
           ScoreDocument(query_terms, doc[1], doc[2])
    \/ \E query_terms \in ReadTermLists, candidate_docs \in ReadCandidates :
           RankDocuments(query_terms, candidate_docs)
    \/ \E query \in ReadQueries : ProcessQuery(query)
    \/ \E terms \in ReadTermLists : OptimizeQueryTerms(terms)
    \/ \E terms \in ReadTermLists : BooleanRetrieval(terms)
    \/ \E phrase \in ReadQueries : PhraseSearch(phrase)
    \/ \E terms \in ReadTermLists : BiwordSearch(terms)

\* one thread indexes statement by statement while other threads search and score
ConcurrentNext ==
    \/ \E item \in QuestionItems : IndexQuestionTerms(item)
    \/ \E item \in AnswerItems : IndexAnswerTerms(item)
    \/ IndexBiwords
    \/ IndexDocStats
    \/ IndexQuestionTags
    \/ \E request \in ReadRequests, now \in Clocks :
           SearchAndRank(request[1], request[2], request[3], now)
    \/ \E query_terms \in ReadTermLists, doc \in ReadDocs :
           ScoreDocument(query_terms, doc[1], doc[2])

\* pages of live results, one with more questions than the boosting stage takes, are
\* cached and searched
BulkNext ==
    \/ \E page \in LivePages : FetchLiveResults(page)
    \/ \E request \in BulkRequests, now \in Clocks :
           SearchAndRank(request[1], request[2], request[3], now)
    \/ ClearCache

\* ingestion through the Indexer and the three lookups a caller's text reaches
QueriesNext ==
    \/ IndexQuestion
    \/ IndexAnswer
    \/ \E request \in QueryRequests, now \in Clocks :
           SearchAndRank(request[1], request[2], request[3], now)
    \/ \E phrase \in QueryPhrases : PhraseSearch(phrase)
    \/ \E terms \in EmptyOrTerms : BooleanRetrieval(terms)

\* live results are cached while documents are scored on the shared ranker
ScoringNext ==
    \/ \E item \in QuestionItems : \E live_answers \in LiveAnswers(item) :
           CacheLiveResult(item, live_answers)
    \/ \E query_terms \in ScoreTermLists, doc \in ScoreDocs :
           ScoreDocument(query_terms, doc[1], doc[2])
    \/ ClearCache

\* live results are cached while idf values are requested from the shared ranker
IdfNext ==
    \/ \E item \in QuestionItems : \E live_answers \in LiveAnswers(item) :
           CacheLiveResult(item, live_answers)
    \/ \E term \in IdfTerms : CalculateIdf(term)
    \/ ClearCache

\* the downloader fills the store the API's ranker searches
CorpusNext ==
    \/ \E batch \in Batches : DownloadAndIndex(batch)
    \/ \E request \in CorpusRequests, now \in Clocks :
           SearchAndRank(request[1], request[2], request[3], now)
    \/ ClearCache

Next ==
    \/ \E item \in QuestionItems : InsertQuestion(item)
    \/ \E item \in AnswerItems : InsertAnswer(item)
    \/ IndexerNext
    \/ RetrievalNext
    \/ RankerNext
    \/ QueriesNext
    \/ ScoringNext
    \/ IdfNext
    \/ StemNext
    \/ ReadsNext
    \/ ConcurrentNext
    \/ BulkNext
    \/ CorpusNext

Spec == Init /\ [][Next]_vars

SpecIndexer == Init /\ [][IndexerNext]_vars

SpecRanker == Init /\ [][RankerNext]_vars

SpecRetrieval == Init /\ [][RetrievalNext]_vars

SpecCorpus == Init /\ [][CorpusNext]_vars

SpecQueries == Init /\ [][QueriesNext]_vars

SpecText == InitText /\ [][TextNext]_vars

SpecScoring == Init /\ [][ScoringNext]_vars

SpecIdf == Init /\ [][IdfNext]_vars

SpecStem == Init /\ [][StemNext]_vars

SpecReads == Init /\ [][ReadsNext]_vars

SpecConcurrent == Init /\ [][ConcurrentNext]_vars

SpecBulk == Init /\ [][BulkNext]_vars

\* the Indexer on a store whose writes may fail
StoreFaultNext ==
    \/ IndexQuestion
    \/ IndexAnswer
    \/ IndexQuestionStoreFault
    \/ IndexAnswerStoreFault

SpecStoreFault == Init /\ [][StoreFaultNext]_vars

\* ---------------------------------------------------------------------------
\* Properties of the ranker
\* ---------------------------------------------------------------------------

\* the questions a search returned
ReturnedQuestions == { ret.value[i].question_id : i \in DOMAIN ret.value }

\* C1: every question returned by search_and_rank(query, min_score) went through the
\* result loop with a pre-boost BM25 score of at least min_score, and no question whose
\* pre-boost score is below min_score is returned, whatever its boosted score is.
C1_ThresholdOnUnboostedScore ==
    ret.op = "search_and_rank" =>
        /\ \A id \in ReturnedQuestions :
               \E j \in DOMAIN ret.ranked :
                   ret.ranked[j][1] = id /\ ret.ranked[j][3] >= ret.args[2]
        /\ \A j \in DOMAIN ret.ranked :
               ret.ranked[j][3] < ret.args[2] => ret.ranked[j][1] \notin ReturnedQuestions

\* a search returned a question while it kept out another one whose boosts lift it over
\* the threshold and whose pre-boost score is under it
C1_Witness ==
    /\ ret.op = "search_and_rank"
    /\ ret.value # <<>>
    /\ \E j \in DOMAIN ret.ranked :
           /\ ret.ranked[j][3] < ret.args[2]
           /\ ret.ranked[j][2] >= ret.args[2]
           /\ ret.ranked[j][1] \notin ReturnedQuestions

\* the statistics a search of the current store works with
FreshTotalDocs == get_total_docs(doc_stats)
FreshAvgDocLength == get_avg_doc_length(doc_stats)
FreshIdf(term) ==
    IdfValue(FreshTotalDocs, Cardinality(DocSet(get_postings(inverted_index, term))))

\* C3: the statistics and the IDF values a search has worked with are those of the index
\* as it is: the cache never survives a change of the index.
C3_SearchUsesCurrentStatistics ==
    (ret.op = "search_and_rank" /\ cache.total_docs # <<>>) =>
        /\ cache.total_docs[1] = FreshTotalDocs
        /\ cache.avg_doc_length # <<>> => cache.avg_doc_length[1] = FreshAvgDocLength
        /\ \A term \in DOMAIN cache.idf_cache : cache.idf_cache[term] = FreshIdf(term)

\* C5: search_and_rank returns a list and raises nothing, whatever the store holds.
C5_SearchNeverRaises ==
    ret.op = "search_and_rank" => ret.raised = ""

\* ---------------------------------------------------------------------------
\* Properties of the Indexer and the QueryProcessor
\* ---------------------------------------------------------------------------

\* the documents with a row in inverted_index
PostedDocs == { <<k[2], k[3]>> : k \in DOMAIN inverted_index }

\* the terms with a posting for document d
StoredTerms(d) == { k[1] : k \in { k \in DOMAIN inverted_index : k[2] = d[1] /\ k[3] = d[2] } }

\* the positions recorded for term in document d, as a list and as a set
StoredPositionList(term, d) ==
    IF <<term, d[1], d[2]>> \in DOMAIN inverted_index
    THEN json_loads_ints(inverted_index[<<term, d[1], d[2]>>].positions)
    ELSE <<>>
StoredPositions(term, d) == Range(StoredPositionList(term, d))

\* the postings of a text: each term of its processed tokens with the ascending list
\* of the positions it holds
PositionsIn(pairs, term) ==
    LET hits == SelectSeq(pairs, LAMBDA p : p[1] = term)
    IN  [h \in DOMAIN hits |-> hits[h][2]]
DerivedPostings(text) ==
    LET pairs == process_with_positions(text)
    IN  { <<pairs[i][1], PositionsIn(pairs, pairs[i][1])>> : i \in DOMAIN pairs }

\* the postings stored for document d
StoredPostings(d) == { <<term, StoredPositionList(term, d)>> : term \in StoredTerms(d) }

\* C2: the postings and the doc-stats stored for a document are exactly those of the
\* content of the last indexing call for it: no posting is left for a term that content
\* does not hold, and the tag postings of a question are those of its last tags.
C2_PostingsAreThoseOfLastCall ==
    \A d \in DOMAIN indexed :
        /\ StoredPostings(d) = DerivedPostings(indexed[d].text)
        /\ d \in DOMAIN doc_stats
        /\ doc_stats[d] = Len(process_with_positions(indexed[d].text))
        /\ d[2] = "question" =>
               StoredTerms(<<d[1], "question_tag">>)
                   = { stem(Lower(indexed[d].tags[i])) : i \in DOMAIN indexed[d].tags }

\* C4: an indexing call during which a store write failed does not return normally.
C4_StoreFailurePropagates ==
    (ret.op \in {"index_question", "index_answer"} /\ ret.failed # {}) => ret.raised # ""

\* the documents holding the terms of tokens at consecutive recorded positions
ConsecutiveDocs(tokens) ==
    { d \in PostedDocs :
        \E p \in StoredPositions(tokens[1], d) :
            \A i \in 1 .. (Len(tokens) - 1) : (p + i) \in StoredPositions(tokens[i + 1], d) }

\* C6: for a phrase of at least two processed terms, phrase_search returns exactly the
\* documents in which some recorded position p of the first term has position p + i
\* recorded for the i-th following term.
C6_PhraseSearchIsConsecutive ==
    (ret.op = "phrase_search" /\ Len(process(ret.args[1])) >= 2) =>
        ret.value = ConsecutiveDocs(process(ret.args[1]))

\* a phrase search returned a document and left out another one that holds every term
\* of the phrase
C6_Witness ==
    /\ ret.op = "phrase_search"
    /\ Len(process(ret.args[1])) >= 2
    /\ ret.value # {}
    /\ \E d \in PostedDocs :
           /\ d \notin ret.value
           /\ Range(process(ret.args[1])) \subseteq StoredTerms(d)

\* C7: a phrase search for words that stand verbatim and consecutively in the body of
\* an indexed answer returns that answer, stopwords between the content words included.
C7_VerbatimPhraseIsFound ==
    (ret.op = "phrase_search" /\ Len(process(ret.args[1])) >= 2) =>
        \A d \in DOMAIN indexed :
            (d[2] = "answer" /\ Contains(tokenize(indexed[d].text), tokenize(ret.args[1])))
                => d \in ret.value

\* the documents with a posting for every biword of terms
BiwordDocs(terms) ==
    IF Len(terms) < 2 THEN {}
    ELSE { d \in { <<k[2], k[3]>> : k \in DOMAIN biword_index } :
             \A bw \in Range(create_biwords(terms)) : <<bw, d[1], d[2]>> \in DOMAIN biword_index }

\* C8: every adjacent pair of the processed tokens of an indexed document has a biword
\* posting for it, and biword_search returns the documents that have a posting for every
\* biword of the terms.
C8_BiwordPostingsAreSearchable ==
    /\ \A d \in DOMAIN indexed :
           \A bw \in Range(create_biwords(process(indexed[d].text))) :
               <<bw, d[1], d[2]>> \in DOMAIN biword_index
    /\ ret.op = "biword_search" => (ret.raised = "" /\ ret.value = BiwordDocs(ret.args[1]))

\* C9: an indexing call that repeats the call before it, same id and same content,
\* leaves postings, biword postings and doc-stats as they were.
C9_IndexingIsIdempotent ==
    [][ (ret'.op \in {"index_question", "index_answer"} /\ ret'.again)
            => (/\ inverted_index' = inverted_index
                /\ biword_index' = biword_index
                /\ doc_stats' = doc_stats) ]_vars

\* a question with tags and a term held more than once has been indexed twice in a row
C9_Witness ==
    /\ ret.op = "index_question"
    /\ ret.again
    /\ ret.args[4] # <<>>
    /\ \E term \in StoredTerms(<<ret.args[1], "question">>) :
           Len(StoredPositionList(term, <<ret.args[1], "question">>)) >= 2

\* C10: every posting, tag postings included, has frequency = len(positions), and its
\* positions are non-negative and strictly increasing.
C10_FrequencyCountsPositions ==
    \A k \in DOMAIN inverted_index :
        LET positions == json_loads_ints(inverted_index[k].positions)
        IN  /\ inverted_index[k].frequency = Len(positions)
            /\ \A i \in DOMAIN positions : positions[i] >= 0
            /\ \A i \in DOMAIN positions : i > 1 => positions[i - 1] < positions[i]

\* the store holds a posting with several positions, a posting written over an earlier
\* one, and a tag posting
C10_Witness ==
    /\ \E k \in DOMAIN inverted_index :
           k[3] # "question_tag" /\ Len(json_loads_ints(inverted_index[k].positions)) >= 3
    /\ \E k \in DOMAIN inverted_index : k[3] = "question_tag"
    /\ writes >= 2

\* C11: the doc_length recorded for an indexed document is the number of
\* (token, position) pairs process_with_positions gives for the text last indexed for it.
C11_DocLengthCountsPairs ==
    \A d \in DOMAIN indexed :
        /\ d \in DOMAIN doc_stats
        /\ doc_stats[d] = Len(process_with_positions(indexed[d].text))

\* a document whose text holds a stopword has been indexed again with a text of another
\* length
C11_Witness ==
    /\ ret.op \in {"index_question", "index_answer"}
    /\ writes >= 2
    /\ \E d \in DOMAIN indexed :
           /\ d[1] = ret.args[1]
           /\ d \in DOMAIN doc_stats
           /\ doc_stats[d] > 0
           /\ doc_stats[d] < Len(tokenize(indexed[d].text))
    /\ \E d \in DOMAIN indexed :
           \E term \in StoredTerms(d) : term \notin Range(process(indexed[d].text))

\* the number of times x stands in seq
Occurrences(seq, x) == Cardinality({ i \in DOMAIN seq : seq[i] = x })

\* the number of postings of term
DocumentFrequency(term) ==
    Cardinality({ k \in DOMAIN inverted_index : k[1] = term })

\* the documents with a posting for every term of terms
DocsWithAll(terms) ==
    { d \in PostedDocs : \A i \in DOMAIN terms : terms[i] \in StoredTerms(d) }

\* C12: boolean_retrieval gives the empty set for no terms and otherwise the documents
\* that have a posting for every term, whatever the order of the terms.
C12_BooleanRetrievalIntersects ==
    ret.op = "boolean_retrieval" =>
        /\ ret.args[1] = <<>> => ret.value = {}
        /\ ret.args[1] # <<>> => ret.value = DocsWithAll(ret.args[1])
        /\ ret.value = boolean_retrieval(inverted_index, Reverse(ret.args[1]))
        /\ (\E i \in DOMAIN ret.args[1] : DocumentFrequency(ret.args[1][i]) = 0)
               => ret.value = {}

\* a retrieval for several terms returned a document and left out another one that has
\* a posting for one of the terms only
C12_Witness ==
    /\ ret.op = "boolean_retrieval"
    /\ Len(ret.args[1]) >= 2
    /\ ret.value # {}
    /\ \E d \in PostedDocs :
           /\ d \notin ret.value
           /\ \E i \in DOMAIN ret.args[1] : ret.args[1][i] \in StoredTerms(d)

\* C13: optimize_query_terms returns its input rearranged, every term as often as it was
\* given, with document frequency non-decreasing from first to last.
C13_RarestTermFirst ==
    ret.op = "optimize_query_terms" =>
        /\ Len(ret.value) = Len(ret.args[1])
        /\ \A i \in DOMAIN ret.args[1] :
               Occurrences(ret.value, ret.args[1][i]) = Occurrences(ret.args[1], ret.args[1][i])
        /\ \A i \in DOMAIN ret.value :
               i > 1 => DocumentFrequency(ret.value[i - 1]) <= DocumentFrequency(ret.value[i])

\* a term list with a repeated term came back in another order
C13_Witness ==
    /\ ret.op = "optimize_query_terms"
    /\ ret.value # ret.args[1]
    /\ \E i \in DOMAIN ret.args[1] : Occurrences(ret.args[1], ret.args[1][i]) >= 2
    /\ DocumentFrequency(ret.value[1]) < DocumentFrequency(ret.value[Len(ret.value)])

\* ---------------------------------------------------------------------------
\* Properties of the result list
\* ---------------------------------------------------------------------------

\* the question ids of the returned results, in order
ReturnedIds == [i \in DOMAIN ret.value |-> ret.value[i].question_id]

\* the entries of sorted_questions the result loop reaches when nothing fills the list:
\* those ahead of the first entry whose pre-boost score is under min_score
ReachedEntries ==
    LET under == { j \in DOMAIN ret.ranked : ret.ranked[j][3] < ret.args[2] }
        stop == IF under = {} THEN Len(ret.ranked) + 1
                ELSE CHOOSE j \in under : \A k \in under : j <= k
    IN  SubSeq(ret.ranked, 1, stop - 1)

\* whether the stored tag string of a question contains the tag, letter case aside
StoredTagsContain(question_id, tag) ==
    /\ question_id \in DOMAIN questions
    /\ Contains(Lower(questions[question_id].tags), Lower(tag))

\* C14: when search_and_rank is given a tag, the stored tag string of every returned
\* question contains the tag as a case-insensitive substring, and the returned questions
\* are the first max_results of the reached questions whose tag string contains it: a
\* question without the tag is left out however high it ranks and takes no place in the
\* list.
C14_TagFilterExcludesWithoutCounting ==
    (ret.op = "search_and_rank" /\ ret.raised = "" /\ ret.args[3] # <<>>) =>
        /\ \A i \in DOMAIN ret.value :
               Contains(Lower(ret.value[i].tags), Lower(ret.args[3]))
        /\ ReturnedIds =
               Take([i \in DOMAIN SelectSeq(ReachedEntries,
                                            LAMBDA e : StoredTagsContain(e[1], ret.args[3])) |->
                        SelectSeq(ReachedEntries,
                                  LAMBDA e : StoredTagsContain(e[1], ret.args[3]))[i][1]],
                    max_results)

\* a search with a tag returned max_results questions, the last of them ranked behind a
\* stored question whose tag string lacks the tag and which is not returned
C14_Witness ==
    /\ ret.op = "search_and_rank"
    /\ ret.args[3] # <<>>
    /\ Len(ret.value) = max_results
    /\ \E j, k \in DOMAIN ret.ranked :
           /\ j < k
           /\ ret.ranked[j][1] \in DOMAIN questions
           /\ ~StoredTagsContain(ret.ranked[j][1], ret.args[3])
           /\ ret.ranked[j][1] \notin ReturnedQuestions
           /\ ret.ranked[k][1] = ret.value[max_results].question_id

\* the stored answers of a question
StoredAnswersOf(question_id) ==
    { a \in DOMAIN answers : answers[a].question_id = question_id }

\* answer x comes no later than answer y in the store's order: accepted before not
\* accepted, then the higher score
NoLater(x, y) ==
    \/ x.is_accepted /\ ~y.is_accepted
    \/ x.is_accepted = y.is_accepted /\ x.score >= y.score

CandidateIds(query, doc_type) ==
    { key[2] : key \in { key \in DOMAIN inverted_index :
                             key[1] \in Range(process(query)) /\ key[3] = doc_type } }

\* C20: every result of search_and_rank is a stored question with a posting of doc_type
\* 'question' under some term of the query, so an id that is a candidate only as an
\* answer or as a question_tag is not returned, and no question id is returned twice.
C20_ResultsAreQuestionCandidates ==
    ret.op = "search_and_rank" =>
        /\ \A i \in DOMAIN ret.value :
               /\ ret.value[i].question_id \in DOMAIN questions
               /\ ret.value[i].question_id \in CandidateIds(ret.args[1], "question")
        /\ \A i, j \in DOMAIN ret.value :
               ret.value[i].question_id = ret.value[j].question_id => i = j

\* a search returned questions while an answer and the tag of a stored question that has
\* no question posting under the query were candidates too
C20_Witness ==
    /\ ret.op = "search_and_rank"
    /\ Len(ret.value) >= 2
    /\ CandidateIds(ret.args[1], "answer") # {}
    /\ \E id \in CandidateIds(ret.args[1], "question_tag") :
           /\ id \in DOMAIN questions
           /\ id \notin CandidateIds(ret.args[1], "question")
           /\ id \notin ReturnedQuestions

\* ---------------------------------------------------------------------------
\* Properties of lookups on inputs that select nothing
\* ---------------------------------------------------------------------------

\* C16: no lookup raises on an input that selects nothing: search_and_rank returns the
\* empty list when the processed query has no terms and when no term of it has a posting,
\* phrase_search returns the empty set when the processed phrase has no terms, and
\* boolean_retrieval returns the empty set for the empty list of terms.
C16_EmptyInputsReturnEmpty ==
    /\ (ret.op = "search_and_rank"
         /\ (process(ret.args[1]) = <<>>
             \/ CandidateDocs(db, process(ret.args[1])) = {}))
        => (ret.raised = "" /\ ret.value = <<>>)
    /\ (ret.op = "phrase_search" /\ process(ret.args[1]) = <<>>)
        => (ret.raised = "" /\ ret.value = {})
    /\ (ret.op = "boolean_retrieval" /\ ret.args[1] = <<>>)
        => (ret.raised = "" /\ ret.value = {})

\* a search whose processed query has terms ran on a store with postings, none of them
\* under a term of the query
C16_Witness ==
    /\ ret.op = "search_and_rank"
    /\ process(ret.args[1]) # <<>>
    /\ DOMAIN inverted_index # {}
    /\ CandidateDocs(db, process(ret.args[1])) = {}
    /\ ret.raised = ""
    /\ ret.value = <<>>

\* ---------------------------------------------------------------------------
\* Properties of the TextProcessor
\* ---------------------------------------------------------------------------

\* C17: the pairs of process_with_positions(text) have strictly increasing positions, the
\* position of a pair is the index in tokenize(text) of the token the pair comes from, no
\* pair comes from a stopword when stopwords are removed, and the tokens of the pairs are
\* process(text) under the same flags.
C17_PositionsAreRawIndices ==
    ret.op = "process_with_positions" =>
        LET pairs == ret.value
            raw == tokenize(ret.args[1])
        IN  /\ \A i \in DOMAIN pairs :
                   /\ pairs[i][2] \in 0 .. (Len(raw) - 1)
                   /\ pairs[i][1] = IF ret.args[3] THEN stem(raw[pairs[i][2] + 1])
                                     ELSE raw[pairs[i][2] + 1]
                   /\ ret.args[2] => raw[pairs[i][2] + 1] \notin stopwords
            /\ \A i, j \in DOMAIN pairs : i < j => pairs[i][2] < pairs[j][2]
            /\ [i \in DOMAIN pairs |-> pairs[i][1]]
                   = process_flags(ret.args[1], ret.args[2], ret.args[3])

\* process_with_positions with the default flags returned two pairs or more, a stopword
\* ahead of one of them having taken an index
C17_Witness ==
    /\ ret.op = "process_with_positions"
    /\ ret.args[2] /\ ret.args[3]
    /\ Len(ret.value) >= 2
    /\ \E i \in DOMAIN ret.value : ret.value[i][2] > i - 1

\* C18: create_biwords on n tokens returns max(n - 1, 0) biwords, the i-th of them the
\* i-th token, an underscore and the token after it; for fewer than two tokens it returns
\* the empty list.
C18_BiwordsAreAdjacentPairs ==
    ret.op = "create_biwords" =>
        LET tokens == ret.args[1]
            biwords == ret.value
        IN  /\ Len(biwords) = IF Len(tokens) - 1 > 0 THEN Len(tokens) - 1 ELSE 0
            /\ \A i \in DOMAIN biwords : biwords[i] = tokens[i] \o <<"_">> \o tokens[i + 1]
            /\ Len(tokens) < 2 => biwords = <<>>

\* create_biwords was given three tokens or more
C18_Witness ==
    /\ ret.op = "create_biwords"
    /\ Len(ret.args[1]) >= 3
    /\ Len(ret.value) = Len(ret.args[1]) - 1

\* C19: every token tokenize returns is non-empty, has no upper-case letter and is made
\* of word characters, '#', '+' and '-' only; none holds '<' or '>'.
C19_TokensAreClean ==
    ret.op = "tokenize" =>
        \A i \in DOMAIN ret.value :
            /\ ret.value[i] # <<>>
            /\ Lower(ret.value[i]) = ret.value[i]
            /\ Range(ret.value[i]) \cap Range(UpperLetters) = {}
            /\ Range(ret.value[i]) \subseteq WordChars \cup {"#", "+", "-"}
            /\ Range(ret.value[i]) \cap {"<", ">"} = {}

\* tokenize returned tokens for a text with an upper-case letter and a '<' that opens no
\* tag
C19_Witness ==
    /\ ret.op = "tokenize"
    /\ ret.value # <<>>
    /\ Range(ret.args[1]) \cap Range(UpperLetters) # {}
    /\ "<" \in Range(StripTags(ret.args[1]))

\* ---------------------------------------------------------------------------
\* Properties of the threshold and boosting stages
\* ---------------------------------------------------------------------------

\* C21: the result loop ends at the first entry of the list sorted by boosted score whose
\* pre-boost score is under min_score: no entry placed after such an entry is returned,
\* whatever its own pre-boost score is.
C21_LoopEndsAtFirstUnderThreshold ==
    ret.op = "search_and_rank" =>
        \A j, k \in DOMAIN ret.ranked :
            (j < k /\ ret.ranked[j][3] < ret.args[2]) =>
                ret.ranked[k][1] \notin ReturnedQuestions

\* a search returned a question and ended at an entry under the threshold, leaving out a
\* stored question behind it whose pre-boost score reaches the threshold and which the tag
\* filter lets through
C21_Witness ==
    /\ ret.op = "search_and_rank"
    /\ ret.value # <<>>
    /\ Len(ret.value) < max_results
    /\ \E j, k \in DOMAIN ret.ranked :
           /\ j < k
           /\ ret.ranked[j][3] < ret.args[2]
           /\ ret.ranked[k][3] >= ret.args[2]
           /\ ret.ranked[k][1] \in DOMAIN questions
           /\ ~TagExcluded(questions[ret.ranked[k][1]], ret.args[3])
           /\ ret.ranked[k][1] \notin ReturnedQuestions

\* the frequency of the posting of a term for a document, 0 without a posting
PostedFrequency(term, doc_id, doc_type) ==
    IF <<term, doc_id, doc_type>> \in DOMAIN inverted_index
    THEN inverted_index[<<term, doc_id, doc_type>>].frequency
    ELSE 0

\* the BM25 contribution of a term to a document with the statistics the ranker holds
Contribution(term, doc_id, doc_type) ==
    IF PostedFrequency(term, doc_id, doc_type) = 0 THEN 0
    ELSE TermScoreValue(cache.idf_cache[term], PostedFrequency(term, doc_id, doc_type),
                        IF <<doc_id, doc_type>> \in DOMAIN doc_stats
                        THEN doc_stats[<<doc_id, doc_type>>] ELSE 1,
                        cache.avg_doc_length[1])

\* the processed title terms of a stored question
StoredTitleTerms(doc_id) ==
    IF doc_id \in DOMAIN questions THEN Range(process(questions[doc_id].title)) ELSE {}

\* the sum of the contributions of the query terms at the given indices
RECURSIVE SumContributions(_, _, _, _)
SumContributions(terms, indices, doc_id, doc_type) ==
    IF indices = {} THEN 0
    ELSE LET i == CHOOSE i \in indices : TRUE
         IN  Contribution(terms[i], doc_id, doc_type)
             + SumContributions(terms, indices \ {i}, doc_id, doc_type)

\* C23: score_document is five times the sum of the contributions of the query terms that
\* are posted for the document and are among the processed title terms of the question,
\* plus the sum of the contributions of the other posted query terms; only a document of
\* type 'question' has title terms, and a term without a posting for the document adds 0.
C23_TitleTermsCountFiveTimes ==
    (ret.op = "score_document" /\ ret.raised = "") =>
        LET terms == ret.args[1]
            in_title == { i \in DOMAIN terms :
                            /\ ret.args[3] = "question"
                            /\ terms[i] \in StoredTitleTerms(ret.args[2]) }
        IN  ret.value = 5 * SumContributions(terms, in_title, ret.args[2], ret.args[3])
                        + SumContributions(terms, DOMAIN terms \ in_title,
                                           ret.args[2], ret.args[3])

\* score_document scored a question with a query term of its title, a query term posted
\* for it outside the title and a query term it has no posting for
C23_Witness ==
    /\ ret.op = "score_document"
    /\ ret.raised = ""
    /\ ret.args[3] = "question"
    /\ \E i, j, k \in DOMAIN ret.args[1] :
           /\ ret.args[1][i] \in StoredTitleTerms(ret.args[2])
           /\ Contribution(ret.args[1][i], ret.args[2], ret.args[3]) > 0
           /\ ret.args[1][j] \notin StoredTitleTerms(ret.args[2])
           /\ Contribution(ret.args[1][j], ret.args[2], ret.args[3]) > 0
           /\ PostedFrequency(ret.args[1][k], ret.args[2], ret.args[3]) = 0

\* ---------------------------------------------------------------------------
\* Properties of the ranker's cache
\* ---------------------------------------------------------------------------

\* C24: a term without postings has idf 0; once a term's idf is cached, every later step
\* up to clear_cache keeps it and a request for it returns it whatever the store holds;
\* clear_cache empties total_docs, avg_doc_length and idf_cache, and a request on the
\* emptied cache computes the document count and the idf from the store.
C24_IdfCachedUntilCleared ==
    [][/\ (ret'.op = "_calculate_idf"
            /\ ret'.args[1] \notin DOMAIN cache.idf_cache
            /\ Cardinality(get_postings(inverted_index, ret'.args[1])) = 0)
           => ret'.value = 0
       /\ ret'.op # "clear_cache" =>
              \A term \in DOMAIN cache.idf_cache :
                  /\ term \in DOMAIN cache'.idf_cache
                  /\ cache'.idf_cache[term] = cache.idf_cache[term]
       /\ (ret'.op = "_calculate_idf" /\ ret'.args[1] \in DOMAIN cache.idf_cache)
           => ret'.value = cache.idf_cache[ret'.args[1]]
       /\ ret'.op = "clear_cache" =>
              /\ cache'.total_docs = <<>>
              /\ cache'.avg_doc_length = <<>>
              /\ cache'.idf_cache = <<>>
       /\ (ret'.op = "_calculate_idf" /\ cache = EmptyCache)
           => /\ cache'.total_docs = <<get_total_docs(doc_stats)>>
              /\ ret'.value = IdfValue(get_total_docs(doc_stats),
                                        Cardinality(get_postings(inverted_index,
                                                                 ret'.args[1])))
              /\ cache'.idf_cache[ret'.args[1]] = ret'.value
      ]_vars

\* a request returned the cached idf of a term whose postings no longer give that value,
\* even with the cached document count
C24_Witness ==
    /\ ret.op = "_calculate_idf"
    /\ Cardinality(get_postings(inverted_index, ret.args[1])) > 0
    /\ ret.value = cache.idf_cache[ret.args[1]]
    /\ ret.value # IdfValue(cache.total_docs[1],
                            Cardinality(get_postings(inverted_index, ret.args[1])))

\* ---------------------------------------------------------------------------
\* Properties of the text a question is indexed by
\* ---------------------------------------------------------------------------

\* a text of words and spaces only
PlainWords(text) == \A i \in DOMAIN text : text[i] \in WordChars \cup {" "}

\* C25: after index_question for a title and a body of plain words, the frequency of
\* each term of the title or the body in the question's posting is twice its occurrences
\* among the processed title tokens plus its occurrences among the processed body tokens,
\* and doc_length is twice the number of processed title tokens plus the number of
\* processed body tokens.
C25_TitleCountsTwice ==
    (ret.op = "index_question" /\ PlainWords(ret.args[2]) /\ PlainWords(ret.args[3])) =>
        LET title_tokens == process(ret.args[2])
            body_tokens == process(ret.args[3])
            doc == <<ret.args[1], "question">>
        IN  /\ \A term \in Range(title_tokens) \cup Range(body_tokens) :
                   /\ <<term, doc[1], doc[2]>> \in DOMAIN inverted_index
                   /\ inverted_index[<<term, doc[1], doc[2]>>].frequency
                          = 2 * Occurrences(title_tokens, term)
                            + Occurrences(body_tokens, term)
            /\ doc \in DOMAIN doc_stats
            /\ doc_stats[doc] = 2 * Len(title_tokens) + Len(body_tokens)

\* a question was indexed whose title and body share a term and whose body holds a
\* stopword
C25_Witness ==
    /\ ret.op = "index_question"
    /\ PlainWords(ret.args[2]) /\ PlainWords(ret.args[3])
    /\ \E term \in Range(process(ret.args[2])) \cap Range(process(ret.args[3])) :
           /\ <<term, ret.args[1], "question">> \in DOMAIN inverted_index
           /\ inverted_index[<<term, ret.args[1], "question">>].frequency = 3
    /\ Len(process(ret.args[3])) < Len(tokenize(ret.args[3]))
    /\ doc_stats[<<ret.args[1], "question">>] = 6

\* ---------------------------------------------------------------------------
\* Properties of the stemmer
\* ---------------------------------------------------------------------------

\* C30: stem gives a non-empty string for every non-empty word, and no posting stored by
\* index_question or index_answer has the empty string as its term.
C30_StemIsNeverEmpty ==
    /\ (ret.op = "stem" /\ ret.args[1] # <<>>) => ret.value # <<>>
    /\ \A k \in DOMAIN inverted_index : k[1] # <<>>

\* C26: in every reachable store, no term has more postings (over all document types,
\* tag postings included) than there are doc-stats rows, and every idf the ranker
\* computes or holds is >= 0.
C26_IdfIsNeverNegative ==
    /\ \A k \in DOMAIN inverted_index :
           Cardinality(get_postings(inverted_index, k[1])) <= get_total_docs(doc_stats)
    /\ ret.op = "_calculate_idf" => ret.value >= 0
    /\ \A term \in DOMAIN cache.idf_cache : cache.idf_cache[term] >= 0

\* the terms of tokens stand at consecutive positions of text
OccursIn(text, tokens) ==
    LET pairs == Range(process_with_positions(text))
    IN  \E pair \in pairs :
            /\ pair[1] = tokens[1]
            /\ \A i \in 1 .. (Len(tokens) - 1) : <<tokens[i + 1], pair[2] + i>> \in pairs

\* C27: a question that phrase_search returns for a phrase of at least two processed
\* terms holds the terms consecutively inside its title or inside its body; no match
\* spans the end of the title and the repeated title or the body.
C27_PhraseLiesInTitleOrBody ==
    (ret.op = "phrase_search" /\ Len(process(ret.args[1])) >= 2) =>
        \A d \in ret.value :
            (d[2] = "question" /\ d \in DOMAIN indexed) =>
                \/ OccursIn(indexed[d].title, process(ret.args[1]))
                \/ OccursIn(indexed[d].body, process(ret.args[1]))

\* ---------------------------------------------------------------------------
\* Frame of the reading operations
\* ---------------------------------------------------------------------------

\* the operations of the ranker and of the QueryProcessor that only read the store
RankerReads == {"search_and_rank", "score_document", "rank_documents"}

QueryProcessorReads ==
    {"process_query", "optimize_query_terms", "boolean_retrieval", "phrase_search",
     "biword_search"}

\* C29: search_and_rank, score_document, rank_documents and every QueryProcessor
\* operation leave the five tables of the store as they were; the ranker's operations
\* change nothing but its cache, and the QueryProcessor's operations leave the cache too.
C29_ReadsLeaveTheStore ==
    [][/\ ret'.op \in RankerReads \cup QueryProcessorReads =>
              /\ questions' = questions
              /\ answers' = answers
              /\ inverted_index' = inverted_index
              /\ biword_index' = biword_index
              /\ doc_stats' = doc_stats
       /\ ret'.op \in QueryProcessorReads => cache' = cache
      ]_vars

\* a search over a filled store returned results and left idf values in the cache
C29_Witness ==
    /\ ret.op = "search_and_rank"
    /\ ret.value # <<>>
    /\ inverted_index # <<>>
    /\ doc_stats # <<>>
    /\ cache.idf_cache # <<>>

\* ---------------------------------------------------------------------------
\* Indexing beside searching threads
\* ---------------------------------------------------------------------------

\* C28: while index_question or index_answer is at work on a document, a search or a
\* score_document call that scores this document finds its doc-stats row: it never scores
\* a document whose postings are in the store while its doc-stats row is not.
C28_SearchSeesWholeDocuments ==
    [][inflight # <<>> =>
          /\ (ret'.op = "search_and_rank"
               /\ InflightDoc \in CandidateDocs(db, process(ret'.args[1])))
              => InflightDoc \in DOMAIN doc_stats
          /\ (ret'.op = "score_document"
               /\ <<ret'.args[2], ret'.args[3]>> = InflightDoc
               /\ \E i \in DOMAIN ret'.args[1] :
                      InflightDoc \in DocSet(get_postings(inverted_index, ret'.args[1][i])))
              => InflightDoc \in DOMAIN doc_stats
      ]_vars

\* ---------------------------------------------------------------------------
\* Properties of the boosting stage
\* ---------------------------------------------------------------------------

\* question_scores of the last search: the pre-boost score of every question candidate
SearchedQuestionScores ==
    LET query_terms == process(ret.args[1])
    IN  QuestionScores(rank_documents(cache, db, query_terms,
                                      Ascending(CandidateDocs(db, query_terms))).scored_docs)

\* the entry of id is among the 20 highest of scores: fewer than 20 entries lie above it
AmongTop20(scores, id) ==
    \E j \in DOMAIN scores :
        /\ scores[j][1] = id
        /\ Cardinality({ k \in DOMAIN scores : scores[k][2] > scores[j][2] }) < 20

\* C22: only the 20 question candidates with the highest pre-boost score are boosted and
\* sorted by boosted score; every returned question is one of those 20, and the results
\* come in non-increasing order of boosted score.
C22_OnlyTheTop20AreBoosted ==
    (ret.op = "search_and_rank" /\ ret.raised = "" /\ ret.ranked # <<>>) =>
        With(SearchedQuestionScores, LAMBDA scores :
            /\ Len(ret.ranked) <= 20
            /\ \A j \in DOMAIN ret.ranked : AmongTop20(scores, ret.ranked[j][1])
            /\ \A j \in DOMAIN ret.ranked :
                   j > 1 => ret.ranked[j - 1][2] >= ret.ranked[j][2]
            /\ \A id \in ReturnedQuestions : AmongTop20(scores, id)
            /\ \A i \in DOMAIN ret.value :
                   i > 1 => ret.value[i - 1].boosted_score >= ret.value[i].boosted_score)

\* a search with more than 20 question candidates returned results of different boosted
\* scores and left out a candidate over the threshold whose boosted score would have put
\* it first
C22_Witness ==
    /\ ret.op = "search_and_rank"
    /\ Len(ret.value) >= 2
    /\ ret.value[1].boosted_score > ret.value[Len(ret.value)].boosted_score
    /\ With(SearchedQuestionScores, LAMBDA scores :
           /\ Len(scores) > 20
           /\ \E j \in DOMAIN scores :
                  /\ \A k \in DOMAIN ret.ranked : ret.ranked[k][1] # scores[j][1]
                  /\ scores[j][2] >= ret.args[2]
                  /\ Boosted(db, scores[j][1], scores[j][2], Clock)[2] > ret.ranked[1][2])

=============================================================================
